---- MODULE Spec2Model ----
(***************************************************************************)
(* A model of the varlink certification server (varlink-certification/     *)
(* src/main.rs), of the proxy and reply helpers the generator emits        *)
(* (varlink/src/generator.rs) and of the self-test client (run_client).    *)
(*                                                                         *)
(* JSON values are records [ty, v]; a struct/map/set is an "object" whose  *)
(* v is a function from member names to JSON values.  Strings are TLA+     *)
(* strings, a dotted method name is the string itself.                     *)
(***************************************************************************)
EXTENDS Integers, Sequences, FiniteSets, TLC

VARIABLES
    now,        \* the monotonic clock (Instant::now()), in ticks
    lifetimes,  \* ClientIds.lifetimes: queue of <<instant, client_id>>
    contexts,   \* ClientIds.contexts: client_id -> expected test
    last,       \* what the most recent operation was given and what it did
    passed,     \* where whole requests are served: client_id -> the last method
                \*   that passed its client-id check since Start issued the id
    cpc,        \* run_client: the call it makes next
    cid,        \* run_client: client_id returned by Start
    cret,       \* run_client: parameters of the previous reply
    carr,       \* run_client: ret_array, the strings collected from Test10
    cstart,     \* the instant at which run_client's Start was served, or -1
    gen,        \* the generator: the function run last, its input and output
    conn,       \* a client's VarlinkStream and the sockets, child and directory
                \* behind it
    srv,        \* run_server in its thread, listen, and the thread that joins it
    wire,       \* one connection: the requests and replies in flight on it
    par         \* connections in check_client_id and the lock on the table

vars == <<now, lifetimes, contexts, last, passed, cpc, cid, cret, carr, cstart,
          gen, conn, srv, wire, par>>
threads == <<srv, wire, par>>
table == <<now, lifetimes, contexts, passed>>
client == <<cpc, cid, cret, carr, cstart>>

-----------------------------------------------------------------------------
(* Bounds of the model *)

\* number of distinct values the client-id hash takes
NumIds == 2
\* Start is not called while the queue holds this many entries
MaxClients == 2
\* the same, where whole requests are served
MaxCallers == 1
\* sub-second ticks taken after each long step
MaxFine == 1
\* long steps (of max_lifetime + 1 seconds each) taken
MaxEpochs == 1
\* clock ticks per second (the clock is finer than Duration::as_secs)
TicksPerSec == 2
\* single ticks run_client may let pass before and after its one long pause
MaxRunTicks == 3

\* longest identifier given to to_snake_case
MaxIdentLen == 4

\* deepest nesting of []/[string]/? wrappers given to to_rust
MaxDepth == 2

\* deepest nesting of inline structs in a field of the interface generated
MaxNest == 2

\* connections that arrive at a server from outside
MaxArrivals == 2

\* run_server: max_lifetime: 60 * 60 * 12
max_lifetime == 60 * 60 * 12

LongStep == TicksPerSec * (max_lifetime + 1)

\* the long pause of run_client: one second short of LongStep
LongPause == LongStep - TicksPerSec

-----------------------------------------------------------------------------
(* JSON values (serde_json::Value) *)

JB(b) == [ty |-> "bool", v |-> b]
JI(i) == [ty |-> "int", v |-> i]
JF(f) == [ty |-> "float", v |-> f]
JS(s) == [ty |-> "string", v |-> s]
JO(o) == [ty |-> "object", v |-> o]
JA(a) == [ty |-> "array", v |-> a]
JNull == [ty |-> "null", v |-> "null"]
\* Option::None of an Option<Value>
NoValue == [ty |-> "none", v |-> "none"]
\* Value::Object(Map::new())
EmptyObject == JO(<<>>)

IsEmptyObject(p) == p.ty = "object" /\ DOMAIN p.v = {}

(* Rust types the generator emits, as descriptors for serde *)
TBool == [k |-> "bool"]
TInt == [k |-> "int"]
TFloat == [k |-> "float"]
TString == [k |-> "string"]
TValue == [k |-> "value"]
TEnum(variants) == [k |-> "enum", variants |-> variants]
TVec(of) == [k |-> "array", of |-> of]
TMap(of) == [k |-> "map", of |-> of]
TSet == [k |-> "set"]
TOption(of) == [k |-> "option", of |-> of]
\* a struct: req are its members of a non-Option type, opt those of type
\* Option<T> (skip_serializing_if = "Option::is_none")
TStruct(req, opt) == [k |-> "struct", req |-> req, opt |-> opt]

\* serde_json::from_value::<ty>(j) succeeds: every required member is there
\* and well typed, an Option member may be missing or null, unknown members
\* are ignored.
RECURSIVE CanDeserialize(_, _)
CanDeserialize(ty, j) ==
    CASE ty.k = "bool" -> j.ty = "bool"
      [] ty.k = "int" -> j.ty = "int"
      [] ty.k = "float" -> j.ty = "float"
      [] ty.k = "string" -> j.ty = "string"
      [] ty.k = "value" -> TRUE
      [] ty.k = "enum" -> j.ty = "string" /\ j.v \in ty.variants
      [] ty.k = "array" ->
            j.ty = "array" /\ \A i \in DOMAIN j.v : CanDeserialize(ty.of, j.v[i])
      [] ty.k = "map" ->
            j.ty = "object" /\ \A f \in DOMAIN j.v : CanDeserialize(ty.of, j.v[f])
      [] ty.k = "set" ->
            j.ty = "object" /\ \A f \in DOMAIN j.v : j.v[f].ty = "object"
      [] ty.k = "option" -> j.ty = "null" \/ CanDeserialize(ty.of, j)
      [] ty.k = "struct" ->
            /\ j.ty = "object"
            /\ \A f \in DOMAIN ty.req :
                  f \in DOMAIN j.v /\ CanDeserialize(ty.req[f], j.v[f])
            /\ \A f \in DOMAIN ty.opt \cap DOMAIN j.v :
                  j.v[f].ty = "null" \/ CanDeserialize(ty.opt[f], j.v[f])

\* serde_json::to_value(serde_json::from_value::<ty>(j)): the typed value, in
\* the JSON form the type serializes to (two typed values are equal exactly
\* when these forms are)
RECURSIVE FromValue(_, _)
FromValue(ty, j) ==
    CASE ty.k \in {"bool", "int", "float", "string", "value", "enum"} -> j
      [] ty.k = "array" -> JA([i \in DOMAIN j.v |-> FromValue(ty.of, j.v[i])])
      [] ty.k = "map" -> JO([f \in DOMAIN j.v |-> FromValue(ty.of, j.v[f])])
      [] ty.k = "set" -> JO([f \in DOMAIN j.v |-> EmptyObject])
      [] ty.k = "option" -> IF j.ty = "null" THEN JNull ELSE FromValue(ty.of, j)
      [] ty.k = "struct" ->
            LET some == {f \in DOMAIN ty.opt \cap DOMAIN j.v : j.v[f].ty # "null"}
            IN  JO([f \in DOMAIN ty.req \cup some |->
                       IF f \in DOMAIN ty.req
                       THEN FromValue(ty.req[f], j.v[f])
                       ELSE FromValue(ty.opt[f], j.v[f])])

-----------------------------------------------------------------------------
(* varlink::Request, varlink::Reply, varlink::Call *)

Iface == "org.varlink.certification"
M(name) == Iface \o "." \o name

Flag == {"none", "false", "true"}

Request(method, more, oneway, upgrade, parameters) ==
    [method |-> method, more |-> more, oneway |-> oneway,
     upgrade |-> upgrade, parameters |-> parameters]

\* serde_json::to_value(request): a None member is left out
RequestToValue(req) ==
    LET flags == {f \in {"more", "oneway", "upgrade"} : req[f] # "none"}
        parms == IF req.parameters.ty = "none" THEN {} ELSE {"parameters"}
    IN  JO([f \in {"method"} \cup flags \cup parms |->
               IF f = "method" THEN JS(req.method)
               ELSE IF f = "parameters" THEN req.parameters
               ELSE JB(req[f])])

ReplyParameters(p) == [error |-> "none", parameters |-> p, continues |-> FALSE]
ReplyError(name, p) == [error |-> name, parameters |-> p, continues |-> FALSE]

NewCall(req) ==
    [request |-> req, continues |-> FALSE, attempts |-> <<>>, frames |-> <<>>]

wants_more(c) == c.request.more = "true"
is_oneway(c) == c.request.oneway = "true"

set_continues(c, b) == [c EXCEPT !.continues = b]

\* Call::reply_struct: a reply to a oneway request is a no-op; otherwise the
\* reply is written with continues set when the handler has set it.
reply_struct(c, reply) ==
    LET r == [reply EXCEPT !.continues = c.continues]
    IN  [c EXCEPT !.attempts = Append(@, r),
                  !.frames = IF is_oneway(c) THEN @ ELSE Append(@, r)]

\* CallTrait::reply_method_not_found / reply_invalid_parameter
reply_method_not_found(c, method) ==
    reply_struct(c, ReplyError("org.varlink.service.MethodNotFound",
                               JO([method |-> JS(method)])))

reply_invalid_parameter(c, parameter) ==
    reply_struct(c, ReplyError("org.varlink.service.InvalidParameter",
                               JO([parameter |-> JS(parameter)])))

-----------------------------------------------------------------------------
(* Reply helpers the generator emits for the certification interface *)

ClientIdError == M("ClientIdError")
CertificationError == M("CertificationError")

\* VarlinkCallError::reply_client_id_error: an error without fields
reply_client_id_error(c) == reply_struct(c, ReplyError(ClientIdError, NoValue))

\* VarlinkCallError::reply_certification_error(wants, got)
reply_certification_error(c, wants, got) ==
    reply_struct(c, ReplyError(CertificationError,
                               JO([wants |-> wants, got |-> got])))

\* Call<Method>_::reply(fields...): the method's Reply_ struct as parameters
reply(c, out) ==
    reply_struct(c, ReplyParameters(IF DOMAIN out = {} THEN NoValue ELSE JO(out)))

-----------------------------------------------------------------------------
(* ClientIds *)

\* Duration::as_secs: whole seconds of a duration given in ticks
as_secs(d) == d \div TicksPerSec

\* format!("{:x}", hash of format!("{:?}", now)): a function of the instant
\* alone, with a range small enough for two instants to collide
Hash(t) == "id" \o ToString(t % NumIds)

ClientIdSet == {Hash(t) : t \in 0 .. NumIds - 1}
\* an id no Start ever returned
UnknownId == "nobody"

Table(l, c) == [lifetimes |-> l, contexts |-> c]

Remove(f, k) == [x \in DOMAIN f \ {k} |-> f[x]]

\* check_lifetime_timeout without its loop: at most one entry is popped
check_lifetime_timeout_once(T, t) ==
    IF T.lifetimes = <<>>
    THEN T
    ELSE LET instant == Head(T.lifetimes)[1]
             client_id == Head(T.lifetimes)[2]
         IN  IF as_secs(t - instant) > max_lifetime
             THEN Table(Tail(T.lifetimes), Remove(T.contexts, client_id))
             ELSE T

RECURSIVE check_lifetime_timeout(_, _)
check_lifetime_timeout(T, t) ==
    IF T.lifetimes = <<>>
    THEN T
    ELSE LET instant == Head(T.lifetimes)[1]
             client_id == Head(T.lifetimes)[2]
         IN  IF as_secs(t - instant) > max_lifetime
             THEN check_lifetime_timeout(
                      Table(Tail(T.lifetimes), Remove(T.contexts, client_id)), t)
             ELSE T

\* check_client_id that stores next_test before it compares the expected test
check_client_id_store_first(T, t, client_id, test, next_test) ==
    LET T1 == check_lifetime_timeout(T, t)
    IN  IF client_id \in DOMAIN T1.contexts
        THEN [ok |-> T1.contexts[client_id] = test,
              T |-> Table(T1.lifetimes, [T1.contexts EXCEPT ![client_id] = next_test])]
        ELSE [ok |-> FALSE, T |-> T1]

\* check_client_id without its first statement
check_client_id_no_timeout(T, t, client_id, test, next_test) ==
    IF client_id \in DOMAIN T.contexts
    THEN IF T.contexts[client_id] # test
         THEN [ok |-> FALSE, T |-> T]
         ELSE [ok |-> TRUE,
               T |-> Table(T.lifetimes, [T.contexts EXCEPT ![client_id] = next_test])]
    ELSE [ok |-> FALSE, T |-> T]

\* check_client_id that does not compare the expected test
check_client_id_any_test(T, t, client_id, test, next_test) ==
    LET T1 == check_lifetime_timeout(T, t)
    IN  IF client_id \in DOMAIN T1.contexts
        THEN [ok |-> TRUE,
              T |-> Table(T1.lifetimes, [T1.contexts EXCEPT ![client_id] = next_test])]
        ELSE [ok |-> FALSE, T |-> T1]

check_client_id(T, t, client_id, test, next_test) ==
    LET T1 == check_lifetime_timeout(T, t)
    IN  IF client_id \in DOMAIN T1.contexts
        THEN IF T1.contexts[client_id] # test
             THEN [ok |-> FALSE, T |-> T1]
             ELSE [ok |-> TRUE,
                   T |-> Table(T1.lifetimes,
                               [T1.contexts EXCEPT ![client_id] = next_test])]
        ELSE [ok |-> FALSE, T |-> T1]

new_client_id(T, t) ==
    LET client_id == Hash(t)
    IN  [client_id |-> client_id,
         T |-> Table(Append(T.lifetimes, <<t, client_id>>),
                     (client_id :> "Test01") @@ T.contexts)]

-----------------------------------------------------------------------------
(* Values and types of the certification interface *)

StringSet(S) == JO([x \in S |-> EmptyObject])

\* the members the handlers compare (bool, int, float, string)
Scalars(b, i, f, s) == [bool |-> JB(b), int |-> JI(i), float |-> JF(f), string |-> JS(s)]
ScalarsType ==
    TStruct([bool |-> TBool, int |-> TInt, float |-> TFloat, string |-> TString], <<>>)

FooBarMap == JO([bar |-> JS("Bar"), foo |-> JS("Foo")])
OneTwoThree == StringSet({"one", "two", "three"})

Interface_foo == TEnum({"foo", "bar"})

MyType ==
    TStruct([object |-> TValue,
             enum |-> TEnum({"one", "two", "three"}),
             struct |-> TStruct([first |-> TInt, second |-> TString], <<>>),
             array |-> TVec(TString),
             dictionary |-> TMap(TString),
             stringset |-> TSet,
             interface |->
                 TStruct([anon |-> TStruct([foo |-> TBool, bar |-> TBool], <<>>)],
                         [foo |-> TVec(TOption(TMap(Interface_foo)))])],
            [nullable |-> TString,
             nullable_array_struct |-> TVec(TStruct([first |-> TInt, second |-> TString], <<>>))])

\* new_mytype(), serialized: the two members that are None are left out
new_mytype ==
    JO([object |-> JO([method |-> JS("org.varlink.certification.Test09"),
                       parameters |-> JO([map |-> JO([foo |-> JS("Foo"),
                                                      bar |-> JS("Bar")])])]),
        enum |-> JS("two"),
        struct |-> JO([first |-> JI(1), second |-> JS("2")]),
        array |-> JA(<<JS("one"), JS("two"), JS("three")>>),
        dictionary |-> JO([foo |-> JS("Foo"), bar |-> JS("Bar")]),
        stringset |-> StringSet({"one", "two", "three"}),
        interface |->
            JO([foo |-> JA(<<JNull,
                             JO([foo |-> JS("foo"), bar |-> JS("bar")]),
                             JNull,
                             JO([one |-> JS("foo"), two |-> JS("bar")])>>),
                anon |-> JO([foo |-> JB(TRUE), bar |-> JB(FALSE)])])])

\* format!("Reply number {}", i)
ReplyNumber(i) == "Reply number " \o ToString(i)

\* <Method>_Args: the struct of the method's input members; all are required
ArgsType(members) == TStruct(members, <<>>)
Start_Args == ArgsType(<<>>)
Test01_Args == ArgsType([client_id |-> TString])
Test02_Args == ArgsType([client_id |-> TString, bool |-> TBool])
Test03_Args == ArgsType([client_id |-> TString, int |-> TInt])
Test04_Args == ArgsType([client_id |-> TString, float |-> TFloat])
Test05_Args == ArgsType([client_id |-> TString, string |-> TString])
Test06_Args == ArgsType([client_id |-> TString, bool |-> TBool, int |-> TInt,
                         float |-> TFloat, string |-> TString])
Test07_Args == ArgsType([client_id |-> TString, struct |-> ScalarsType])
Test08_Args == ArgsType([client_id |-> TString, map |-> TMap(TString)])
Test09_Args == ArgsType([client_id |-> TString, set |-> TSet])
Test10_Args == ArgsType([client_id |-> TString, mytype |-> MyType])
Test11_Args == ArgsType([client_id |-> TString, last_more_replies |-> TVec(TString)])
End_Args == ArgsType([client_id |-> TString])

\* a value of <Method>_Args, serialized
Args(client_id, members) == JO(("client_id" :> JS(client_id)) @@ members)

-----------------------------------------------------------------------------
(* The request checks (macros of main.rs).  Each gives the outcome of the   *)
(* check and the call after it: on failure the CertificationError reply has *)
(* been made and the handler returns.                                       *)

AnyTrue(req, flags) == \E f \in flags : req[f] = "true"

\* the request a failed check reports as wanted
WantsRequest(more, oneway, upgrade, test, wants) ==
    RequestToValue(Request(test, more, oneway, upgrade, wants))

check_call_expr(c, check, wants) ==
    IF ~check
    THEN [check |-> FALSE,
          call |-> reply_certification_error(c, wants, RequestToValue(c.request))]
    ELSE [check |-> TRUE, call |-> c]

\* check_call_normal that returns on a failed check without the error reply
check_call_normal_silent(c, test, got, wants) ==
    LET req == c.request
        check ==
            IF AnyTrue(req, {"more", "oneway", "upgrade"}) THEN FALSE
            ELSE IF req.parameters.ty # "none" /\ req.method = test
                 THEN IF CanDeserialize(got, req.parameters)
                      THEN wants = FromValue(got, req.parameters)
                      ELSE FALSE
                 ELSE FALSE
    IN  [check |-> check, call |-> c]

check_call_normal(c, test, got, wants) ==
    LET req == c.request
        check ==
            IF AnyTrue(req, {"more", "oneway", "upgrade"}) THEN FALSE
            ELSE IF req.parameters.ty # "none" /\ req.method = test
                 THEN IF CanDeserialize(got, req.parameters)
                      THEN wants = FromValue(got, req.parameters)
                      ELSE FALSE
                 ELSE FALSE
    IN  IF ~check
        THEN [check |-> FALSE,
              call |-> reply_certification_error(
                           c, WantsRequest("none", "none", "none", test, wants),
                           RequestToValue(req))]
        ELSE [check |-> TRUE, call |-> c]

\* check_call_more without the return after the error reply
check_call_more_no_return(c, test, got, wants) ==
    LET req == c.request
        check ==
            IF AnyTrue(req, {"oneway", "upgrade"}) THEN FALSE
            ELSE IF req.more = "true" /\ req.parameters.ty # "none" /\ req.method = test
                 THEN IF CanDeserialize(got, req.parameters)
                      THEN wants = FromValue(got, req.parameters)
                      ELSE FALSE
                 ELSE FALSE
    IN  IF ~check
        THEN [check |-> TRUE,
              call |-> reply_certification_error(
                           c, WantsRequest("none", "none", "none", test, wants),
                           RequestToValue(req))]
        ELSE [check |-> TRUE, call |-> c]

check_call_more(c, test, got, wants) ==
    LET req == c.request
        check ==
            IF AnyTrue(req, {"oneway", "upgrade"}) THEN FALSE
            ELSE IF req.more = "true" /\ req.parameters.ty # "none" /\ req.method = test
                 THEN IF CanDeserialize(got, req.parameters)
                      THEN wants = FromValue(got, req.parameters)
                      ELSE FALSE
                 ELSE FALSE
    IN  IF ~check
        THEN [check |-> FALSE,
              call |-> reply_certification_error(
                           c, WantsRequest("none", "none", "none", test, wants),
                           RequestToValue(req))]
        ELSE [check |-> TRUE, call |-> c]

\* check_call_oneway without the arm that turns down more
check_call_oneway_any_more(c, test, got, wants) ==
    LET req == c.request
        check ==
            IF AnyTrue(req, {"upgrade"}) THEN FALSE
            ELSE IF req.oneway = "true" /\ req.parameters.ty # "none" /\ req.method = test
                 THEN IF CanDeserialize(got, req.parameters)
                      THEN wants = FromValue(got, req.parameters)
                      ELSE FALSE
                 ELSE FALSE
    IN  IF ~check
        THEN [check |-> FALSE,
              call |-> reply_certification_error(
                           c, WantsRequest("none", "none", "none", test, wants),
                           RequestToValue(req))]
        ELSE [check |-> TRUE, call |-> c]

check_call_oneway(c, test, got, wants) ==
    LET req == c.request
        check ==
            IF AnyTrue(req, {"more", "upgrade"}) THEN FALSE
            ELSE IF req.oneway = "true" /\ req.parameters.ty # "none" /\ req.method = test
                 THEN IF CanDeserialize(got, req.parameters)
                      THEN wants = FromValue(got, req.parameters)
                      ELSE FALSE
                 ELSE FALSE
    IN  IF ~check
        THEN [check |-> FALSE,
              call |-> reply_certification_error(
                           c, WantsRequest("none", "none", "none", test, wants),
                           RequestToValue(req))]
        ELSE [check |-> TRUE, call |-> c]

-----------------------------------------------------------------------------
(* impl VarlinkInterface for CertInterface.  A handler gives the call after *)
(* it, the table after it, and how far it got: id_ok and req_ok are "pass", *)
(* "fail" or "na" (the check was not reached, or the handler has none).     *)

Handled(c, T, id_ok, req_ok) ==
    [call |-> c, T |-> T, id_ok |-> id_ok, req_ok |-> req_ok]

start(c, T, t) ==
    LET req == c.request
        pat ==
            IF AnyTrue(req, {"more", "upgrade", "oneway"}) THEN FALSE
            ELSE IF req.method = "org.varlink.certification.Start"
                    /\ (req.parameters.ty = "none" \/ IsEmptyObject(req.parameters))
                 THEN TRUE
                 ELSE FALSE
        chk == check_call_expr(
                   c, pat,
                   RequestToValue(Request("org.varlink.certification.Start",
                                          "none", "true", "none", NoValue)))
        new == new_client_id(T, t)
    IN  IF ~chk.check
        THEN Handled(chk.call, T, "na", "fail")
        ELSE Handled(reply(chk.call, [client_id |-> JS(new.client_id)]), new.T, "na", "pass")

\* test01 replying false where test02 wants true
test01_replies_false(c, T, t, client_id) ==
    LET idc == check_client_id(T, t, client_id, "Test01", "Test02")
        chk == check_call_normal(c, "org.varlink.certification.Test01", Test01_Args,
                                 Args(client_id, <<>>))
    IN  IF ~idc.ok THEN Handled(reply_client_id_error(c), idc.T, "fail", "na")
        ELSE IF ~chk.check THEN Handled(chk.call, idc.T, "pass", "fail")
        ELSE Handled(reply(chk.call, [bool |-> JB(FALSE)]), idc.T, "pass", "pass")

\* test01 with the request check before the client-id check
test01_request_first(c, T, t, client_id) ==
    LET idc == check_client_id(T, t, client_id, "Test01", "Test02")
        chk == check_call_normal(c, "org.varlink.certification.Test01", Test01_Args,
                                 Args(client_id, <<>>))
    IN  IF ~chk.check THEN Handled(chk.call, T, "na", "fail")
        ELSE IF ~idc.ok THEN Handled(reply_client_id_error(c), idc.T, "fail", "pass")
        ELSE Handled(reply(chk.call, [bool |-> JB(TRUE)]), idc.T, "pass", "pass")

test01(c, T, t, client_id) ==
    LET idc == check_client_id(T, t, client_id, "Test01", "Test02")
        chk == check_call_normal(c, "org.varlink.certification.Test01", Test01_Args,
                                 Args(client_id, <<>>))
    IN  IF ~idc.ok THEN Handled(reply_client_id_error(c), idc.T, "fail", "na")
        ELSE IF ~chk.check THEN Handled(chk.call, idc.T, "pass", "fail")
        ELSE Handled(reply(chk.call, [bool |-> JB(TRUE)]), idc.T, "pass", "pass")

test02(c, T, t, client_id) ==
    LET idc == check_client_id(T, t, client_id, "Test02", "Test03")
        chk == check_call_normal(c, "org.varlink.certification.Test02", Test02_Args,
                                 Args(client_id, [bool |-> JB(TRUE)]))
    IN  IF ~idc.ok THEN Handled(reply_client_id_error(c), idc.T, "fail", "na")
        ELSE IF ~chk.check THEN Handled(chk.call, idc.T, "pass", "fail")
        ELSE Handled(reply(chk.call, [int |-> JI(1)]), idc.T, "pass", "pass")

test03(c, T, t, client_id) ==
    LET idc == check_client_id(T, t, client_id, "Test03", "Test04")
        chk == check_call_normal(c, "org.varlink.certification.Test03", Test03_Args,
                                 Args(client_id, [int |-> JI(1)]))
    IN  IF ~idc.ok THEN Handled(reply_client_id_error(c), idc.T, "fail", "na")
        ELSE IF ~chk.check THEN Handled(chk.call, idc.T, "pass", "fail")
        ELSE Handled(reply(chk.call, [float |-> JF("1.0")]), idc.T, "pass", "pass")

test04(c, T, t, client_id) ==
    LET idc == check_client_id(T, t, client_id, "Test04", "Test05")
        chk == check_call_normal(c, "org.varlink.certification.Test04", Test04_Args,
                                 Args(client_id, [float |-> JF("1.0")]))
    IN  IF ~idc.ok THEN Handled(reply_client_id_error(c), idc.T, "fail", "na")
        ELSE IF ~chk.check THEN Handled(chk.call, idc.T, "pass", "fail")
        ELSE Handled(reply(chk.call, [string |-> JS("ping")]), idc.T, "pass", "pass")

test05(c, T, t, client_id) ==
    LET idc == check_client_id(T, t, client_id, "Test05", "Test06")
        chk == check_call_normal(c, "org.varlink.certification.Test05", Test05_Args,
                                 Args(client_id, [string |-> JS("ping")]))
    IN  IF ~idc.ok THEN Handled(reply_client_id_error(c), idc.T, "fail", "na")
        ELSE IF ~chk.check THEN Handled(chk.call, idc.T, "pass", "fail")
        ELSE Handled(reply(chk.call, Scalars(FALSE, 2, "PI", "a lot of string")),
                     idc.T, "pass", "pass")

test06(c, T, t, client_id) ==
    LET idc == check_client_id(T, t, client_id, "Test06", "Test07")
        chk == check_call_normal(c, "org.varlink.certification.Test06", Test06_Args,
                                 Args(client_id, Scalars(FALSE, 2, "PI", "a lot of string")))
    IN  IF ~idc.ok THEN Handled(reply_client_id_error(c), idc.T, "fail", "na")
        ELSE IF ~chk.check THEN Handled(chk.call, idc.T, "pass", "fail")
        ELSE Handled(reply(chk.call, [struct |-> JO(Scalars(FALSE, 2, "PI", "a lot of string"))]),
                     idc.T, "pass", "pass")

test07(c, T, t, client_id) ==
    LET idc == check_client_id(T, t, client_id, "Test07", "Test08")
        chk == check_call_normal(
                   c, "org.varlink.certification.Test07", Test07_Args,
                   Args(client_id,
                        [struct |-> JO(Scalars(FALSE, 2, "PI", "a lot of string"))]))
    IN  IF ~idc.ok THEN Handled(reply_client_id_error(c), idc.T, "fail", "na")
        ELSE IF ~chk.check THEN Handled(chk.call, idc.T, "pass", "fail")
        ELSE Handled(reply(chk.call, [map |-> FooBarMap]), idc.T, "pass", "pass")

test08(c, T, t, client_id) ==
    LET idc == check_client_id(T, t, client_id, "Test08", "Test09")
        chk == check_call_normal(c, "org.varlink.certification.Test08", Test08_Args,
                                 Args(client_id, [map |-> FooBarMap]))
    IN  IF ~idc.ok THEN Handled(reply_client_id_error(c), idc.T, "fail", "na")
        ELSE IF ~chk.check THEN Handled(chk.call, idc.T, "pass", "fail")
        ELSE Handled(reply(chk.call, [set |-> OneTwoThree]), idc.T, "pass", "pass")

test09(c, T, t, client_id) ==
    LET idc == check_client_id(T, t, client_id, "Test09", "Test10")
        chk == check_call_normal(c, "org.varlink.certification.Test09", Test09_Args,
                                 Args(client_id, [set |-> OneTwoThree]))
    IN  IF ~idc.ok THEN Handled(reply_client_id_error(c), idc.T, "fail", "na")
        ELSE IF ~chk.check THEN Handled(chk.call, idc.T, "pass", "fail")
        ELSE Handled(reply(chk.call, [mytype |-> new_mytype]), idc.T, "pass", "pass")

\* the loop of test10 from iteration i on: for i in 1..11 { ... call.reply(..)? }
\* the loop of test10 that leaves continues set on the tenth reply
RECURSIVE test10_loop_all_continue(_, _)
test10_loop_all_continue(c, i) ==
    IF i >= 11
    THEN c
    ELSE test10_loop_all_continue(reply(c, [string |-> JS(ReplyNumber(i))]), i + 1)

RECURSIVE test10_loop(_, _)
test10_loop(c, i) ==
    IF i >= 11
    THEN c
    ELSE LET c1 == IF i = 10 THEN set_continues(c, FALSE) ELSE c
         IN  test10_loop(reply(c1, [string |-> JS(ReplyNumber(i))]), i + 1)

test10(c, T, t, client_id) ==
    LET idc == check_client_id(T, t, client_id, "Test10", "Test11")
        chk == check_call_more(c, "org.varlink.certification.Test10", Test10_Args,
                               Args(client_id, [mytype |-> new_mytype]))
    IN  IF ~idc.ok THEN Handled(reply_client_id_error(c), idc.T, "fail", "na")
        ELSE IF ~chk.check THEN Handled(chk.call, idc.T, "pass", "fail")
        ELSE Handled(test10_loop(set_continues(chk.call, TRUE), 1), idc.T, "pass", "pass")

\* Call::reply_struct on a connection that closes once it has taken open
\* frames: the write of a later frame fails with a transport error
reply_struct_closing(c, r, open) ==
    LET r1 == [r EXCEPT !.continues = c.continues]
    IN  IF Len(c.frames) >= open
        THEN [ok |-> FALSE, call |-> [c EXCEPT !.attempts = Append(@, r1)]]
        ELSE [ok |-> TRUE, call |-> reply_struct(c, r)]

\* the loop of test10 with `let _ = call.reply(...)` for `call.reply(...)?`
RECURSIVE test10_loop_closing_goes_on(_, _, _)
test10_loop_closing_goes_on(c, i, open) ==
    IF i >= 11
    THEN [result |-> "Ok", call |-> c]
    ELSE LET c1 == IF i = 10 THEN set_continues(c, FALSE) ELSE c
             w == reply_struct_closing(
                      c1, ReplyParameters(JO([string |-> JS(ReplyNumber(i))])), open)
         IN  test10_loop_closing_goes_on(w.call, i + 1, open)

\* the loop of test10 over such a connection: `call.reply(...)?` returns the
\* error of the first write that fails
RECURSIVE test10_loop_closing(_, _, _)
test10_loop_closing(c, i, open) ==
    IF i >= 11
    THEN [result |-> "Ok", call |-> c]
    ELSE LET c1 == IF i = 10 THEN set_continues(c, FALSE) ELSE c
             w == reply_struct_closing(
                      c1, ReplyParameters(JO([string |-> JS(ReplyNumber(i))])), open)
         IN  IF ~w.ok
             THEN [result |-> "Err", call |-> w.call]
             ELSE test10_loop_closing(w.call, i + 1, open)

\* test10 over such a connection; a handler returns what its error reply
\* returns
test10_closing(c, T, t, client_id, open) ==
    LET idc == check_client_id(T, t, client_id, "Test10", "Test11")
        chk == check_call_more(c, "org.varlink.certification.Test10", Test10_Args,
                               Args(client_id, [mytype |-> new_mytype]))
        ide == reply_struct_closing(c, ReplyError(ClientIdError, NoValue), open)
        che == reply_struct_closing(c, chk.call.attempts[1], open)
        run == test10_loop_closing(set_continues(c, TRUE), 1, open)
    IN  IF ~idc.ok
        THEN [call |-> ide.call, T |-> idc.T, id_ok |-> "fail", req_ok |-> "na",
              result |-> IF ide.ok THEN "Ok" ELSE "Err"]
        ELSE IF ~chk.check
             THEN [call |-> che.call, T |-> idc.T, id_ok |-> "pass", req_ok |-> "fail",
                   result |-> IF che.ok THEN "Ok" ELSE "Err"]
             ELSE [call |-> run.call, T |-> idc.T, id_ok |-> "pass", req_ok |-> "pass",
                   result |-> run.result]

\* test11 ending in call.reply() as the other handlers do
test11_replies(c, T, t, client_id) ==
    LET idc == check_client_id(T, t, client_id, "Test11", "End")
        more_replies == JA([i \in 1 .. 10 |-> JS(ReplyNumber(i))])
        chk == check_call_oneway(c, "org.varlink.certification.Test11", Test11_Args,
                                 Args(client_id, [last_more_replies |-> more_replies]))
    IN  IF ~idc.ok THEN Handled(reply_client_id_error(c), idc.T, "fail", "na")
        ELSE IF ~chk.check THEN Handled(chk.call, idc.T, "pass", "fail")
        ELSE Handled(reply(chk.call, <<>>), idc.T, "pass", "pass")

test11(c, T, t, client_id) ==
    LET idc == check_client_id(T, t, client_id, "Test11", "End")
        more_replies == JA([i \in 1 .. 10 |-> JS(ReplyNumber(i))])
        chk == check_call_oneway(c, "org.varlink.certification.Test11", Test11_Args,
                                 Args(client_id, [last_more_replies |-> more_replies]))
    IN  IF ~idc.ok THEN Handled(reply_client_id_error(c), idc.T, "fail", "na")
        ELSE IF ~chk.check THEN Handled(chk.call, idc.T, "pass", "fail")
        ELSE Handled(chk.call, idc.T, "pass", "pass")

end(c, T, t, client_id) ==
    LET idc == check_client_id(T, t, client_id, "End", "End")
        chk == check_call_normal(c, "org.varlink.certification.End", End_Args,
                                 Args(client_id, <<>>))
    IN  IF ~idc.ok THEN Handled(reply_client_id_error(c), idc.T, "fail", "na")
        ELSE IF ~chk.check THEN Handled(chk.call, idc.T, "pass", "fail")
        ELSE Handled(reply(chk.call, [all_ok |-> JB(TRUE)]), idc.T, "pass", "pass")

-----------------------------------------------------------------------------
(* The proxy the generator emits: VarlinkInterfaceProxy::call *)

\* the handler was invoked and returned Ok(())
Invoked(h) ==
    [call |-> h.call, T |-> h.T, id_ok |-> h.id_ok, req_ok |-> h.req_ok,
     result |-> "Ok", invoked |-> TRUE]

\* the proxy returned without invoking the handler
NotInvoked(c, T, result) ==
    [call |-> c, T |-> T, id_ok |-> "na", req_ok |-> "na",
     result |-> result, invoked |-> FALSE]

HasInput(args_type) == DOMAIN args_type.req \cup DOMAIN args_type.opt # {}

\* one arm "<iface>.<Method>" => { ... } of the match in call, up to the call
\* of the handler: whether it is called, with which args, and what call
\* returns otherwise
ProxyArm(c, T, args_type) ==
    IF HasInput(args_type)
    THEN IF c.request.parameters.ty # "none"
         THEN IF CanDeserialize(args_type, c.request.parameters)
              THEN [invoke |-> TRUE,
                    args |-> FromValue(args_type, c.request.parameters),
                    otherwise |-> NotInvoked(c, T, "Ok")]
              ELSE [invoke |-> FALSE, args |-> NoValue,
                    otherwise |-> NotInvoked(c, T, "Err")]
         ELSE [invoke |-> FALSE, args |-> NoValue,
               otherwise |-> NotInvoked(reply_invalid_parameter(c, "parameters"),
                                        T, "Ok")]
    ELSE [invoke |-> TRUE, args |-> EmptyObject,
          otherwise |-> NotInvoked(c, T, "Ok")]

\* the interface and the member a method string "<iface>.<Method>" names
Dotted(iface, member) == iface \o "." \o member
Ifaces == {"org.example.ping", "org.example.other"}
Members == {"Ping", "Stop", "Find", "Nope"}
InterfaceOf(method) ==
    CHOOSE i \in Ifaces : \E m \in Members : method = Dotted(i, m)
MemberOf(method) ==
    CHOOSE m \in Members : \E i \in Ifaces : method = Dotted(i, m)

\* the default arm replying with the member name alone
ProxyDefaultArm_member(c, T) ==
    NotInvoked(reply_method_not_found(c, MemberOf(c.request.method)), T, "Ok")

\* the arm m => { ... } of the match in call
ProxyDefaultArm(c, T) ==
    NotInvoked(reply_method_not_found(c, c.request.method), T, "Ok")

\* the proxy of the certification interface over CertInterface
CertCall(c, T, t) ==
    LET m == c.request.method
        arm(args_type) == ProxyArm(c, T, args_type)
        id(args_type) == arm(args_type).args.v.client_id.v
    IN  CASE m = M("Start") ->
                IF arm(Start_Args).invoke THEN Invoked(start(c, T, t))
                ELSE arm(Start_Args).otherwise
          [] m = M("Test01") ->
                IF arm(Test01_Args).invoke
                THEN Invoked(test01(c, T, t, id(Test01_Args)))
                ELSE arm(Test01_Args).otherwise
          [] m = M("Test02") ->
                IF arm(Test02_Args).invoke
                THEN Invoked(test02(c, T, t, id(Test02_Args)))
                ELSE arm(Test02_Args).otherwise
          [] m = M("Test03") ->
                IF arm(Test03_Args).invoke
                THEN Invoked(test03(c, T, t, id(Test03_Args)))
                ELSE arm(Test03_Args).otherwise
          [] m = M("Test04") ->
                IF arm(Test04_Args).invoke
                THEN Invoked(test04(c, T, t, id(Test04_Args)))
                ELSE arm(Test04_Args).otherwise
          [] m = M("Test05") ->
                IF arm(Test05_Args).invoke
                THEN Invoked(test05(c, T, t, id(Test05_Args)))
                ELSE arm(Test05_Args).otherwise
          [] m = M("Test06") ->
                IF arm(Test06_Args).invoke
                THEN Invoked(test06(c, T, t, id(Test06_Args)))
                ELSE arm(Test06_Args).otherwise
          [] m = M("Test07") ->
                IF arm(Test07_Args).invoke
                THEN Invoked(test07(c, T, t, id(Test07_Args)))
                ELSE arm(Test07_Args).otherwise
          [] m = M("Test08") ->
                IF arm(Test08_Args).invoke
                THEN Invoked(test08(c, T, t, id(Test08_Args)))
                ELSE arm(Test08_Args).otherwise
          [] m = M("Test09") ->
                IF arm(Test09_Args).invoke
                THEN Invoked(test09(c, T, t, id(Test09_Args)))
                ELSE arm(Test09_Args).otherwise
          [] m = M("Test10") ->
                IF arm(Test10_Args).invoke
                THEN Invoked(test10(c, T, t, id(Test10_Args)))
                ELSE arm(Test10_Args).otherwise
          [] m = M("Test11") ->
                IF arm(Test11_Args).invoke
                THEN Invoked(test11(c, T, t, id(Test11_Args)))
                ELSE arm(Test11_Args).otherwise
          [] m = M("End") ->
                IF arm(End_Args).invoke THEN Invoked(end(c, T, t, id(End_Args)))
                ELSE arm(End_Args).otherwise
          [] OTHER -> ProxyDefaultArm(c, T)

-----------------------------------------------------------------------------
(* Requests the environment sends *)

Tests == <<"Test01", "Test02", "Test03", "Test04", "Test05", "Test06", "Test07",
           "Test08", "Test09", "Test10", "Test11", "End">>

\* more, oneway, upgrade: each absent or true, or all three false
FlagChoices ==
    [more : {"none", "true"}, oneway : {"none", "true"}, upgrade : {"none", "true"}]
        \cup {[more |-> "false", oneway |-> "false", upgrade |-> "false"]}

\* the members a client following the protocol sends besides client_id
Expected(test) ==
    CASE test = "Test02" -> [bool |-> JB(TRUE)]
      [] test = "Test03" -> [int |-> JI(1)]
      [] test = "Test04" -> [float |-> JF("1.0")]
      [] test = "Test05" -> [string |-> JS("ping")]
      [] test = "Test06" -> Scalars(FALSE, 2, "PI", "a lot of string")
      [] test = "Test07" -> [struct |-> JO(Scalars(FALSE, 2, "PI", "a lot of string"))]
      [] test = "Test08" -> [map |-> JO([foo |-> JS("Foo"), bar |-> JS("Bar")])]
      [] test = "Test09" -> [set |-> StringSet({"three", "two", "one"})]
      [] test = "Test10" -> [mytype |-> JO(("nullable" :> JNull) @@ new_mytype.v)]
      [] test = "Test11" -> [last_more_replies |-> JA([i \in 1 .. 10 |-> JS(ReplyNumber(i))])]
      [] OTHER -> [unknown_member |-> JS("ignored")]

\* members of the right types with another value
Unexpected(test) ==
    CASE test = "Test02" -> [bool |-> JB(FALSE)]
      [] test = "Test03" -> [int |-> JI(2)]
      [] test = "Test04" -> [float |-> JF("PI")]
      [] test = "Test05" -> [string |-> JS("pong")]
      [] test = "Test06" -> Scalars(FALSE, 2, "PI", "ping")
      [] test = "Test07" -> [struct |-> JO(Scalars(TRUE, 2, "PI", "a lot of string"))]
      [] test = "Test08" -> [map |-> JO([foo |-> JS("Foo")])]
      [] test = "Test09" -> [set |-> StringSet({"one", "two"})]
      [] test = "Test10" -> [mytype |-> JO(("enum" :> JS("one")) @@ new_mytype.v)]
      [] test = "Test11" -> [last_more_replies |-> JA([i \in 1 .. 9 |-> JS(ReplyNumber(i))])]
      [] OTHER -> <<>>

\* parameters that do not deserialize into <Method>_Args: client_id is a number
Malformed(test) == JO(("client_id" :> JI(7)) @@ Expected(test))

ParamChoices(test, client_id) ==
    {Args(client_id, Expected(test)), Args(client_id, Unexpected(test))}

\* parameters the proxy turns down before it reaches the handler
BadParamChoices(test) == {NoValue, Malformed(test)}

StartParamChoices == {NoValue, EmptyObject, JO([client_id |-> JS(UnknownId)])}

CallerIds == ClientIdSet \cup {UnknownId}

-----------------------------------------------------------------------------
(* VarlinkStream (varlink/src/client.rs).  An address is a sequence of      *)
(* one-character strings.  conn holds the result of connect and, behind the *)
(* stream, the state of its socket, of the child and its listening socket   *)
(* and of the temporary directory, with a log of what was done to them.     *)

\* address.starts_with(prefix), &address[n..]
starts_with(address, prefix) ==
    /\ Len(address) >= Len(prefix)
    /\ SubSeq(address, 1, Len(prefix)) = prefix
from(address, n) == SubSeq(address, n + 1, Len(address))

\* address.split(";").next().unwrap()
RECURSIVE split_next(_)
split_next(address) ==
    IF address = <<>> \/ Head(address) = ";" THEN <<>>
    ELSE <<Head(address)>> \o split_next(Tail(address))

RECURSIVE replacen_every(_)
replacen_every(addr) ==
    IF addr = <<>> THEN <<>>
    ELSE <<IF Head(addr) = "@" THEN "NUL" ELSE Head(addr)>>
         \o replacen_every(Tail(addr))

\* addr.replacen("@", "\0", 1) on an addr that starts with "@"; the NUL
\* character is the string "NUL"
replacen(addr) == <<"NUL">> \o Tail(addr)

tcp == <<"t", "c", "p", ":">>
unix == <<"u", "n", "i", "x", ":">>
exec == <<"e", "x", "e", "c", ":">>

\* what is dialled: TcpStream::connect, UnixStream::connect,
\* AbstractStream::connect
Dial(net, to) == [net |-> net, to |-> to]
NoDial == Dial("none", <<>>)

\* a child process: what it was started from and with, and whether it is
\* "running", "exited", "killed" (not yet waited for) or "reaped"
Child(executable, arg, fd3, env, state) ==
    [executable |-> executable, arg |-> arg, fd3 |-> fd3, env |-> env,
     state |-> state]
NoChild == Child(<<>>, <<>>, "none", <<>>, "none")

\* enum VarlinkStream: TCP(TcpStream), UNIX(UnixStream, Option<Child>,
\* Option<TempDir>); child and tmpdir tell whether the Option is Some
TCP(dial) == [kind |-> "TCP", dial |-> dial, child |-> FALSE, tmpdir |-> FALSE]
UNIX(dial, child, tmpdir) ==
    [kind |-> "UNIX", dial |-> dial, child |-> child, tmpdir |-> tmpdir]
NoStream == [kind |-> "none", dial |-> NoDial, child |-> FALSE, tmpdir |-> FALSE]

\* the name the kernel gives the socket bound to "", and the temporary
\* directory with the socket in it
AbstractName == <<"0", "a">>
TempDir == <<"/", "t">>
SocketFile == TempDir \o <<"/", "s">>

\* before_exec in the child, whose descriptors are those of the parent (fd
\* is the listening socket, 3 something else unless fd is 3): the socket at
\* descriptor 3
before_exec_no_dup2(fd) == IF fd = 3 THEN "listener" ELSE "other"

before_exec(fd) ==
    LET inherited == [d \in {3, fd} |-> IF d = fd THEN "listener" ELSE "other"]
    IN  IF fd # 3 THEN inherited[fd] ELSE inherited[3]

\* fn varlink_exec: the listening socket is bound, abstract on linux and in
\* a fresh temporary directory elsewhere, and the executable spawned; fd is
\* the descriptor of the listening socket and spawned whether spawn succeeds
varlink_exec(address, linux, fd, spawned) ==
    LET bound == IF linux THEN <<"@">> \o AbstractName ELSE SocketFile
        arg == <<"-", "-", "v", "a", "r", "l", "i", "n", "k", "=">>
                  \o unix \o bound
    IN  [ok |-> spawned,
         child |->
            IF spawned
            THEN Child(from(address, 5), arg, before_exec(fd),
                       [LISTEN_FDS |-> "1", LISTEN_FDNAMES |-> "varlink",
                        LISTEN_PID |-> "pid of the child"],
                       "running")
            ELSE NoChild,
         address |-> unix \o bound,
         tmpdir |-> ~linux,
         listening |-> Dial(IF linux THEN "abstract" ELSE "unix",
                            IF linux THEN AbstractName ELSE SocketFile)]

\* the outcome of connect and what is behind it
Connection(op, input, result, error, address, stream, socket, child, dir,
           listening, log) ==
    [op |-> op, input |-> input, result |-> result, error |-> error,
     address |-> address, stream |-> stream, socket |-> socket,
     child |-> child, dir |-> dir, listening |-> listening, log |-> log]
Unconnected ==
    Connection("none", <<>>, "none", "", <<>>, NoStream, "none", NoChild,
               "none", NoDial, <<>>)

\* VarlinkStream::connect; dialled tells whether the dial succeeds.  When
\* connect fails after varlink_exec the child is dropped, which leaves it
\* running, and the TempDir is dropped, which removes the directory.
connect(input, linux, fd, spawned, dialled) ==
    LET isexec == starts_with(input, exec)
        e == varlink_exec(input, linux, fd, spawned)
        address == IF isexec THEN e.address ELSE input
        my_child == isexec
        tmpdir == isexec /\ e.tmpdir
        child == IF isexec THEN e.child ELSE NoChild
        listening == IF isexec THEN e.listening ELSE NoDial
        addr == split_next(from(address, 5))
        dial == IF starts_with(address, tcp) THEN Dial("tcp", from(address, 4))
                ELSE IF starts_with(addr, <<"@">>)
                THEN Dial("abstract", Tail(replacen(addr)))
                ELSE Dial("unix", addr)
        failed(error, dir) ==
            Connection("connect", input, "Err", error, <<>>, NoStream, "none",
                       child, dir, listening, <<>>)
    IN  IF isexec /\ ~e.ok
        THEN Connection("connect", input, "Err", "io", <<>>, NoStream, "none",
                        NoChild, IF e.tmpdir THEN "removed" ELSE "none",
                        NoDial, <<>>)
        ELSE IF ~(starts_with(address, tcp) \/ starts_with(address, unix))
        THEN failed("unknown varlink address", "none")
        ELSE IF ~dialled
        THEN failed("io", IF tmpdir THEN "removed" ELSE "none")
        ELSE Connection("connect", input, "Ok", "", address,
                        IF starts_with(address, tcp) THEN TCP(dial)
                        ELSE UNIX(dial, my_child, tmpdir),
                        "open", child, IF tmpdir THEN "exists" ELSE "none",
                        listening, <<>>)

drop_kill_first(c, exited) ==
    [c EXCEPT !.op = "drop", !.stream = NoStream, !.socket = "closed",
              !.child.state = IF c.stream.child THEN "reaped" ELSE @,
              !.dir = IF c.stream.child /\ c.stream.tmpdir THEN "removed" ELSE @,
              !.log = IF c.stream.child
                      THEN <<"kill", "wait", "shutdown", "close">>
                      ELSE <<"shutdown", "close">>]

\* impl Drop for VarlinkStream, and the drop of its fields after it; exited
\* tells whether the child has ended by itself before
drop(c, exited) ==
    LET shutdown == [c EXCEPT !.socket = "shutdown",
                              !.log = Append(@, "shutdown")]
        killed == [shutdown EXCEPT
                      !.child.state = IF exited THEN "exited" ELSE "killed",
                      !.log = Append(@, "kill")]
        waited == [killed EXCEPT !.child.state = "reaped",
                                 !.log = Append(@, "wait")]
        removed == IF c.stream.tmpdir
                   THEN [waited EXCEPT !.dir = "removed",
                                       !.log = Append(@, "remove_dir_all")]
                   ELSE waited
        matched == IF c.stream.kind = "UNIX" /\ c.stream.child
                   THEN removed ELSE shutdown
    IN  [matched EXCEPT !.op = "drop", !.stream = NoStream,
                        !.socket = "closed",
                        !.dir = IF @ = "exists" THEN "removed" ELSE @,
                        !.log = Append(@, "close")]

-----------------------------------------------------------------------------
(* run_server in a thread of its own, varlink::listen under it, and the     *)
(* thread that starts it, runs a client against it and joins it.  Time is   *)
(* counted in seconds: the seconds the accept loop has waited for a         *)
(* connection, and the second the starting thread sleeps.                   *)

Ok == [ok |-> TRUE, kind |-> "none"]
Err(kind) == [ok |-> FALSE, kind |-> kind]
NoResult == [ok |-> FALSE, kind |-> "pending"]

\* the kinds of error listen fails with before it accepts
BindErrorKinds == {"Io", "InvalidAddress"}

\* run_server that swallows every failure of listen
run_server_swallow(listened) == Ok

\* fn run_server, after listen has returned: if let Err(e) = listen(..)
\* { match e.kind() { Timeout => {}, _ => Err(e)? } } Ok(())
run_server(listened) ==
    IF ~listened.ok
    THEN IF listened.kind = "Timeout" THEN Ok ELSE Err(listened.kind)
    ELSE Ok

\* a server that is never told to time out
NoTimeout == 0

\* run_self_test: ::run_server(address, 4)
SelfTestTimeout == 4

\* the --timeout values main is run with; without the option it is 0
Timeouts == 0 .. SelfTestTimeout

\* listen, when its wait for a connection has lasted timeout_seconds: it
\* returns Timeout when no connection is active and waits again otherwise
listen_expired(timeout, idle) == timeout > 0 /\ idle >= timeout

Server(mode, timeout, pc, listened, result, idle, active, arrivals, test, calls) ==
    [mode |-> mode, timeout |-> timeout, pc |-> pc, listened |-> listened,
     result |-> result, idle |-> idle, active |-> active,
     arrivals |-> arrivals, test |-> test, calls |-> calls]

\* the example ping client, run_app: three times call.more().ping(ping)?
\* followed by .recv()?; here with the second receive after the third send
run_app_pipelined == <<"send", "recv", "send", "send", "recv", "recv">>

\* fn run_app: the writes and reads on its connection in program order
run_app == <<"send", "recv", "send", "recv", "send", "recv">>

\* let ping: String = "Test".into()
PingRequest ==
    Request("org.example.ping.Ping", "true", "none", "none",
            JO([ping |-> JS("Test")]))

\* a connection: the program of its client and the place it is at, the
\* requests written and not yet read by the server, the replies the handler
\* has emitted and the connection loop has yet to write, the replies written
\* and not yet read by the client, the number of calls sent, the call the
\* client reads replies for (0: none), and the replies each call was given.
\* Requests and replies carry the number of the call they belong to.
Wire(prog, pc, requests, pending, replies, sent, reading, got) ==
    [prog |-> prog, pc |-> pc, requests |-> requests, pending |-> pending,
     replies |-> replies, sent |-> sent, reading |-> reading, got |-> got]

NoWire == Wire("none", 1, <<>>, <<>>, <<>>, 0, 0, <<>>)

\* the frames a handler has emitted, as replies to call n
RepliesTo(n, frames) == [i \in DOMAIN frames |-> [of |-> n, frame |-> frames[i]]]

\* the client takes a reply off the connection for the call it reads for
Delivered(w) ==
    Append(w.got, [call |-> w.reading, of |-> Head(w.replies).of,
                   frame |-> Head(w.replies).frame])
\* the connections whose handlers run at the same time
Conns == {"a", "b"}

\* a lock that is granted whoever holds it
write_shared(holders) == TRUE

\* RwLock::write: granted when no other guard is held
write(holders) == holders = {}

\* a handler's call into CertInterface: where it is (idle, lock, the
\* statements under the lock, unlock, done), what it was called with, the
\* instant new_client_id read, what check_client_id returned and the reply
\* sent for a check that failed; and what was so when it was called and when
\* its check ran: whether the table expected this test of the id, whether
\* which connections' calls were under way during it, whether the id had not
\* expired
Thread(pc, op, client_id, test, at, ok, replied, seen, peers, fresh) ==
    [pc |-> pc, op |-> op, client_id |-> client_id, test |-> test, at |-> at,
     ok |-> ok, reply |-> replied, seen |-> seen, peers |-> peers,
     fresh |-> fresh]

IdleThread ==
    Thread("idle", "none", "none", "none", 0, FALSE, "none", FALSE, {}, FALSE)

NoThreads == [holders |-> {}, thr |-> [c \in Conns |-> IdleThread]]

NotStarted == Server("none", 0, "none", NoResult, NoResult, 0, 0, 0, "none", 0)

-----------------------------------------------------------------------------
(* The client-id table under the calls the handlers make on it *)

\* next_test were End to start over with Test01
NextTest_wraps(test) ==
    IF test = "End" THEN "Test01"
    ELSE Tests[(CHOOSE i \in DOMAIN Tests : Tests[i] = test) + 1]

\* the test each handler passes to check_client_id as next_test
NextTest(test) ==
    CASE test = "Test01" -> "Test02"
      [] test = "Test02" -> "Test03"
      [] test = "Test03" -> "Test04"
      [] test = "Test04" -> "Test05"
      [] test = "Test05" -> "Test06"
      [] test = "Test06" -> "Test07"
      [] test = "Test07" -> "Test08"
      [] test = "Test08" -> "Test09"
      [] test = "Test09" -> "Test10"
      [] test = "Test10" -> "Test11"
      [] test = "Test11" -> "End"
      [] test = "End" -> "End"

Idle ==
    [op |-> "none", request |-> Request("none", "none", "none", "none", NoValue),
     client_id |-> "none", expected |-> "absent", passed |-> "none",
     id_ok |-> "na", req_ok |-> "na", result |-> "Ok",
     invoked |-> FALSE, attempts |-> <<>>, frames |-> <<>>, evicted |-> 0,
     test |-> "none"]

ExpectedOf(client_id) ==
    IF client_id \in DOMAIN contexts THEN contexts[client_id] ELSE "absent"

PassedOf(client_id) ==
    IF client_id \in DOMAIN passed THEN passed[client_id] ELSE "none"

\* CertInterface::new_client_id, under the write lock
NewClientId ==
    LET new == new_client_id(Table(lifetimes, contexts), now)
    IN  /\ Len(lifetimes) < MaxClients
        /\ lifetimes' = new.T.lifetimes
        /\ contexts' = new.T.contexts
        /\ last' = [Idle EXCEPT !.op = "NewClientId",
                                !.evicted = Len(lifetimes) + 1 - Len(new.T.lifetimes)]
        /\ UNCHANGED <<now, passed, client, gen, conn, threads>>

\* CertInterface::check_client_id, under the write lock, as a handler calls it
CheckClientId ==
    \E i \in DOMAIN Tests, client_id \in CallerIds :
        LET test == Tests[i]
            r == check_client_id(Table(lifetimes, contexts), now, client_id,
                                 test, NextTest(test))
        IN  /\ lifetimes' = r.T.lifetimes
            /\ contexts' = r.T.contexts
            /\ last' = [Idle EXCEPT !.op = "CheckClientId",
                                    !.test = IF r.ok THEN test ELSE "none",
                                    !.id_ok = IF r.ok THEN "pass" ELSE "fail",
                                    !.client_id = IF r.ok THEN client_id ELSE "none",
                                    !.evicted = Len(lifetimes) - Len(r.T.lifetimes)]
            /\ UNCHANGED <<now, passed, client, gen, conn, threads>>

\* time passes: one tick, or max_lifetime + 1 seconds at once
Tick ==
    /\ \E d \in {1, LongStep} :
          /\ d = 1 => now % LongStep < MaxFine
          /\ d = LongStep => now \div LongStep < MaxEpochs
          /\ now' = now + d
    /\ last' = [Idle EXCEPT !.op = "Tick"]
    /\ UNCHANGED <<lifetimes, contexts, passed, client, gen, conn, threads>>

Init ==
    /\ now = 0
    /\ lifetimes = <<>>
    /\ contexts = <<>>
    /\ last = Idle
    /\ passed = [i \in ClientIdSet |-> "none"]
    /\ cpc = "Start"
    /\ cid = "none"
    /\ cret = NoValue
    /\ carr = <<>>
    /\ cstart = -1
    /\ gen = [op |-> "none", input |-> <<>>, output |-> <<>>]
    /\ conn = Unconnected
    /\ srv = NotStarted
    /\ wire = NoWire
    /\ par = NoThreads

Next == NewClientId \/ CheckClientId \/ Tick

Spec == Init /\ [][Next]_vars

-----------------------------------------------------------------------------
(* The server under requests: one action per method of the interface.  Any  *)
(* request may follow requests that passed every check; the run is followed *)
(* no further once a request has failed one.                                *)

\* the client_id member of the request, when it has one
ClientIdOf(req) ==
    IF req.parameters.ty = "object" /\ "client_id" \in DOMAIN req.parameters.v
    THEN IF req.parameters.v.client_id.ty = "string"
         THEN req.parameters.v.client_id.v
         ELSE "none"
    ELSE "none"

\* Requests are explored after requests that passed.  A request that does not
\* pass leaves the table as it was, or as the passing request of the same
\* method and id leaves it, so the requests that may follow it are the same.
AllPassed == last.op = "none" \/ (last.invoked /\ last.req_ok = "pass")

\* the server handles one request: the whole of VarlinkInterfaceProxy::call
Serve(op, req) ==
    LET r == CertCall(NewCall(req), Table(lifetimes, contexts), now)
        client_id == ClientIdOf(req)
    IN  /\ lifetimes' = r.T.lifetimes
        /\ contexts' = r.T.contexts
        /\ last' = [op |-> op, request |-> req, client_id |-> client_id,
                    expected |-> ExpectedOf(client_id), passed |-> PassedOf(client_id),
                    id_ok |-> r.id_ok, req_ok |-> r.req_ok, result |-> r.result,
                    invoked |-> r.invoked, attempts |-> r.call.attempts,
                    frames |-> r.call.frames, evicted |-> 0]
        /\ passed' = IF op = "Start" /\ r.req_ok = "pass"
                     THEN [passed EXCEPT ![Hash(now)] = "none"]
                     ELSE IF r.id_ok = "pass"
                          THEN [passed EXCEPT ![client_id] = op]
                          ELSE passed
        /\ now' = now

Start ==
    /\ AllPassed
    /\ Len(lifetimes) < MaxCallers
    /\ \E f \in FlagChoices, p \in StartParamChoices :
          Serve("Start", Request(M("Start"), f.more, f.oneway, f.upgrade, p))
    /\ UNCHANGED <<client, gen, conn, threads>>

TestCall(test) ==
    /\ AllPassed
    /\ \E f \in FlagChoices :
          \E p \in BadParamChoices(test)
                    \cup UNION {ParamChoices(test, id) : id \in CallerIds} :
             Serve(test, Request(M(test), f.more, f.oneway, f.upgrade, p))
    /\ UNCHANGED <<client, gen, conn, threads>>

Test01 == TestCall("Test01")
Test02 == TestCall("Test02")
Test03 == TestCall("Test03")
Test04 == TestCall("Test04")
Test05 == TestCall("Test05")
Test06 == TestCall("Test06")
Test07 == TestCall("Test07")
Test08 == TestCall("Test08")
Test09 == TestCall("Test09")
Test10 == TestCall("Test10")
Test11 == TestCall("Test11")
End == TestCall("End")

\* a Test10 request with more on a connection that closes after open frames
Test10Closing ==
    /\ AllPassed
    /\ \E id \in CallerIds, open \in 0 .. 9 :
          \E p \in ParamChoices("Test10", id) :
             LET req == Request(M("Test10"), "true", "none", "none", p)
                 arm == ProxyArm(NewCall(req), Table(lifetimes, contexts), Test10_Args)
                 r == test10_closing(NewCall(req), Table(lifetimes, contexts), now,
                                     arm.args.v.client_id.v, open)
             IN  /\ arm.invoke
                 /\ lifetimes' = r.T.lifetimes
                 /\ contexts' = r.T.contexts
                 /\ last' = [op |-> "Test10Closing", request |-> req, client_id |-> id,
                             expected |-> ExpectedOf(id), passed |-> PassedOf(id),
                             id_ok |-> r.id_ok, req_ok |-> r.req_ok,
                             result |-> r.result, invoked |-> TRUE,
                             attempts |-> r.call.attempts, frames |-> r.call.frames,
                             evicted |-> open]
                 /\ passed' = IF r.id_ok = "pass"
                              THEN [passed EXCEPT ![id] = "Test10"]
                              ELSE passed
    /\ UNCHANGED <<now, client, gen, conn, threads>>

NextCalls ==
    \/ Start
    \/ Test10Closing
    \/ Test01 \/ Test02 \/ Test03 \/ Test04 \/ Test05 \/ Test06
    \/ Test07 \/ Test08 \/ Test09 \/ Test10 \/ Test11 \/ End

SpecCalls == Init /\ [][NextCalls]_vars

-----------------------------------------------------------------------------
(* The proxy the generator emits for an interface with a method of each     *)
(* kind of input: Ping(ping: string), Stop(), Find(name: ?string).          *)

PingIface == "org.example.ping"

Ping_Args == ArgsType([ping |-> TString])
Stop_Args == ArgsType(<<>>)
Find_Args == TStruct(<<>>, [name |-> TString])

\* a handler that replies the arguments it was called with
echo(c, T, args) == Handled(reply(c, args.v), T, "na", "pass")

PingCall(c, T) ==
    LET m == c.request.method
        arm(args_type) == ProxyArm(c, T, args_type)
    IN  CASE m = Dotted(PingIface, "Ping") ->
                IF arm(Ping_Args).invoke
                THEN Invoked(echo(c, T, arm(Ping_Args).args))
                ELSE arm(Ping_Args).otherwise
          [] m = Dotted(PingIface, "Stop") ->
                IF arm(Stop_Args).invoke
                THEN Invoked(echo(c, T, arm(Stop_Args).args))
                ELSE arm(Stop_Args).otherwise
          [] m = Dotted(PingIface, "Find") ->
                IF arm(Find_Args).invoke
                THEN Invoked(echo(c, T, arm(Find_Args).args))
                ELSE arm(Find_Args).otherwise
          [] OTHER -> ProxyDefaultArm(c, T)

PingMethods == {Dotted(i, m) : i \in Ifaces, m \in Members}

PingParamChoices ==
    {NoValue, EmptyObject, JO([ping |-> JS("Test")]), JO([ping |-> JI(1)]),
     JO([name |-> JS("Test")]), JO([name |-> JNull])}

\* what the proxy did with a request: whether the handler ran, the result of
\* call, the replies tried and the frames written
Outcome(r) ==
    [invoked |-> r.invoked, result |-> r.result,
     attempts |-> r.call.attempts, frames |-> r.call.frames]

\* VarlinkInterfaceProxy::call on one request
ProxyCall ==
    /\ \E m \in PingMethods, f \in FlagChoices, p \in PingParamChoices :
          LET req == Request(m, f.more, f.oneway, f.upgrade, p)
              r == PingCall(NewCall(req), Table(lifetimes, contexts))
          IN  last' = [Idle EXCEPT !.op = "ProxyCall", !.request = req,
                                   !.invoked = r.invoked, !.result = r.result,
                                   !.req_ok = r.req_ok,
                                   !.attempts = r.call.attempts,
                                   !.frames = r.call.frames]
    /\ UNCHANGED <<table, client, gen, conn, threads>>

NextProxy == ProxyCall

SpecProxy == Init /\ [][NextProxy]_vars

-----------------------------------------------------------------------------
(* run_client against one server: the thirteen calls of the self-test, in   *)
(* program order, with time passing between them.                           *)

RunSteps == <<"Start">> \o Tests

StepAfter(step) ==
    LET i == CHOOSE k \in DOMAIN RunSteps : RunSteps[k] = step
    IN  IF i = Len(RunSteps) THEN "Done" ELSE RunSteps[i + 1]

\* the <Method>_Args struct of a TestN method or End
ArgsOf(test) ==
    CASE test = "Test01" -> Test01_Args
      [] test = "Test02" -> Test02_Args
      [] test = "Test03" -> Test03_Args
      [] test = "Test04" -> Test04_Args
      [] test = "Test05" -> Test05_Args
      [] test = "Test06" -> Test06_Args
      [] test = "Test07" -> Test07_Args
      [] test = "Test08" -> Test08_Args
      [] test = "Test09" -> Test09_Args
      [] test = "Test10" -> Test10_Args
      [] test = "Test11" -> Test11_Args
      [] test = "End" -> End_Args

\* the arguments run_client passes: client_id, and the members of the
\* previous reply (for Test11 the collected ret_array)
ClientParameters(step) ==
    IF step = "Start" THEN EmptyObject
    ELSE IF step = "Test11" THEN Args(cid, [last_more_replies |-> JA(carr)])
    ELSE LET ty == ArgsOf(step).req
         IN  Args(cid, [f \in DOMAIN ty \ {"client_id"} |->
                           FromValue(ty[f], cret.v[f])])

\* every request made with .call()
ClientRequest_call(step) ==
    Request(M(step), "none", "none", "none", ClientParameters(step))

\* .call() sends no flag, .more() sends more, .oneway() sends oneway
ClientRequest(step) ==
    Request(M(step),
            IF step = "Test10" THEN "true" ELSE "none",
            IF step = "Test11" THEN "true" ELSE "none",
            "none", ClientParameters(step))

\* the index of the frame that ends a stream of replies, or 0
FinalFrame(frames) ==
    LET ends == {i \in DOMAIN frames :
                    ~frames[i].continues \/ frames[i].error # "none"}
    IN  IF ends = {} THEN 0 ELSE CHOOSE i \in ends : \A j \in ends : i <= j

\* one statement of run_client: the request is served and the reply read
ClientStep ==
    /\ \E k \in DOMAIN RunSteps : RunSteps[k] = cpc
    /\ Serve(cpc, ClientRequest(cpc))
    /\ LET frames == last'.frames
           n == IF cpc = "Test10" THEN FinalFrame(frames)
                ELSE IF frames = <<>> THEN 0 ELSE 1
           read == cpc # "Test11"
           ended == /\ read
                    /\ \/ last'.result = "Err"
                       \/ n > 0 /\ frames[n].error # "none"
           blocked == read /\ ~ended /\ n = 0
       IN  /\ cpc' = IF ended THEN "Failed"
                     ELSE IF blocked THEN "Blocked"
                     ELSE StepAfter(cpc)
           /\ cret' = IF read /\ ~ended /\ ~blocked /\ cpc # "Test10"
                      THEN frames[1].parameters ELSE cret
           /\ carr' = IF cpc = "Test10" /\ ~ended /\ ~blocked
                      THEN [i \in 1 .. n |-> frames[i].parameters.v.string]
                      ELSE carr
           /\ cid' = IF cpc = "Start" /\ ~ended /\ ~blocked
                     THEN frames[1].parameters.v.client_id.v ELSE cid
           /\ cstart' = IF cpc = "Start" /\ ~ended /\ ~blocked THEN now ELSE cstart
    /\ UNCHANGED <<gen, conn, threads>>

\* time passes between two statements of run_client: one tick, or one pause
\* that ends a second before an id issued at the beginning expires
RunTick ==
    /\ \E k \in DOMAIN RunSteps : RunSteps[k] = cpc
    /\ \E d \in {1, LongPause} :
          /\ d = 1 => now % LongPause < MaxRunTicks
          /\ d = LongPause => now < LongPause
          /\ now' = now + d
    /\ UNCHANGED <<lifetimes, contexts, last, passed, client, gen, conn, threads>>

NextSelfTest == ClientStep \/ RunTick

SpecSelfTest == Init /\ [][NextSelfTest]_vars

-----------------------------------------------------------------------------
(* The server thread, the clients that connect to it, and the joining       *)
(* thread.                                                                  *)

\* run_self_test spawns the server thread with its timeout and goes to
\* sleep; main starts run_server with the timeout of the command line and
\* clients of its own arrive from outside
StartServer ==
    /\ srv.mode = "none"
    /\ \/ srv' = [NotStarted EXCEPT !.mode = "selftest", !.pc = "starting",
                                    !.timeout = SelfTestTimeout,
                                    !.test = "sleep", !.calls = Len(RunSteps)]
       \/ \E t \in Timeouts, n \in 0 .. MaxArrivals :
             srv' = [NotStarted EXCEPT !.mode = "main", !.pc = "starting",
                                       !.timeout = t, !.arrivals = n]
    /\ UNCHANGED <<table, last, client, gen, conn, wire, par>>

\* listen binds the address and enters its accept loop, or returns at once
Bind ==
    /\ srv.pc = "starting"
    /\ \/ srv' = [srv EXCEPT !.pc = "listening", !.idle = 0]
       \/ \E listened \in {Ok} \cup {Err(k) : k \in BindErrorKinds} :
             srv' = [srv EXCEPT !.pc = "returned", !.listened = listened,
                                !.result = run_server(listened)]
    /\ UNCHANGED <<table, last, client, gen, conn, wire, par>>

\* one second passes: the sleep of the starting thread ends, and the accept
\* loop has waited a second longer
ServerTick ==
    /\ srv.mode # "none"
    /\ LET waiting == /\ srv.pc = "listening"
                      /\ srv.timeout > 0
           asleep == srv.test = "sleep"
       IN  /\ waiting \/ asleep
           /\ waiting => ~listen_expired(srv.timeout, srv.idle)
           /\ srv' = [srv EXCEPT !.idle = IF waiting THEN @ + 1 ELSE @,
                                 !.test = IF asleep THEN "connect" ELSE @]
    /\ UNCHANGED <<table, last, client, gen, conn, wire, par>>

\* the wait of the accept loop has lasted timeout_seconds
Expire ==
    /\ srv.pc = "listening"
    /\ listen_expired(srv.timeout, srv.idle)
    /\ srv' = IF srv.active = 0
              THEN [srv EXCEPT !.pc = "returned", !.listened = Err("Timeout"),
                               !.result = run_server(Err("Timeout"))]
              ELSE [srv EXCEPT !.idle = 0]
    /\ UNCHANGED <<table, last, client, gen, conn, wire, par>>

\* run_client connects after the sleep: the connection is accepted by a
\* server that listens, and refused otherwise, which ends run_self_test
TestConnect ==
    /\ srv.test = "connect"
    /\ srv' = IF srv.pc = "listening"
              THEN [srv EXCEPT !.test = "run", !.active = @ + 1, !.idle = 0]
              ELSE [srv EXCEPT !.test = "failed"]
    /\ UNCHANGED <<table, last, client, gen, conn, wire, par>>

\* one call of run_client: it goes on, or fails and drops the connection
TestCalls ==
    /\ srv.test = "run"
    /\ srv.calls > 0
    /\ \/ srv' = [srv EXCEPT !.calls = @ - 1]
       \/ srv' = [srv EXCEPT !.test = "failed", !.active = @ - 1]
    /\ UNCHANGED <<table, last, client, gen, conn, wire, par>>

\* run_client returns Ok and its connection is dropped; the thread goes on
\* to child.join()
TestDone ==
    /\ srv.test = "run"
    /\ srv.calls = 0
    /\ srv' = [srv EXCEPT !.test = "join", !.active = @ - 1]
    /\ UNCHANGED <<table, last, client, gen, conn, wire, par>>

\* child.join(): Ok when the closure returned, Err when it panicked
Join ==
    /\ srv.test = "join"
    /\ srv.pc = "returned"
    /\ srv' = [srv EXCEPT !.test = IF srv.result.ok THEN "joined" ELSE "panicked"]
    /\ UNCHANGED <<table, last, client, gen, conn, wire, par>>

\* a client from outside connects
Arrive ==
    /\ srv.pc = "listening"
    /\ srv.arrivals > 0
    /\ srv' = [srv EXCEPT !.arrivals = @ - 1, !.active = @ + 1, !.idle = 0]
    /\ UNCHANGED <<table, last, client, gen, conn, wire, par>>

\* a client from outside disconnects
Leave ==
    /\ srv.mode = "main"
    /\ srv.active > 0
    /\ srv' = [srv EXCEPT !.active = @ - 1]
    /\ UNCHANGED <<table, last, client, gen, conn, wire, par>>

NextServer ==
    \/ StartServer \/ Bind \/ ServerTick \/ Expire
    \/ TestConnect \/ TestCalls \/ TestDone \/ Join
    \/ Arrive \/ Leave

SpecServer == Init /\ [][NextServer]_vars

\* time passes, and the server thread and the joining thread are scheduled
SpecServerLive ==
    /\ SpecServer
    /\ WF_vars(ServerTick)
    /\ WF_vars(Expire)
    /\ WF_vars(Join)

-----------------------------------------------------------------------------
(* One connection between a client program and the connection loop of the   *)
(* server: run_client against the certification interface, or run_app       *)
(* against org.example.ping.  The client writes a request and, unless it    *)
(* was oneway, reads replies; the server reads one request at a time and    *)
(* writes the replies of its handler in the order they are emitted.         *)

\* the Ping handler of the example server: one reply, pong the ping it got
ping(c, T, args) == Handled(reply(c, [pong |-> args.v.ping]), T, "na", "pass")

\* the proxy of org.example.ping over that handler
PingServerCall(c, T) ==
    IF c.request.method = "org.example.ping.Ping"
    THEN IF ProxyArm(c, T, Ping_Args).invoke
         THEN Invoked(ping(c, T, ProxyArm(c, T, Ping_Args).args))
         ELSE ProxyArm(c, T, Ping_Args).otherwise
    ELSE ProxyDefaultArm(c, T)

\* Connection::new: the connection of one of the two programs is made
WireOpen ==
    /\ wire.prog = "none"
    /\ \E prog \in {"cert", "ping"} : wire' = [wire EXCEPT !.prog = prog]
    /\ UNCHANGED <<table, last, client, gen, conn, srv, par>>

\* a statement of run_client up to the write of its request: .call() and
\* .more() go on to read, .oneway() returns at once
CertSend ==
    /\ wire.prog = "cert"
    /\ wire.reading = 0
    /\ \E k \in DOMAIN RunSteps : RunSteps[k] = cpc
    /\ LET n == wire.sent + 1
           req == ClientRequest(cpc)
       IN  /\ wire' = [wire EXCEPT
                         !.requests = Append(@, [n |-> n, op |-> cpc, req |-> req]),
                         !.sent = n,
                         !.reading = IF req.oneway = "true" THEN 0 ELSE n]
           /\ cpc' = IF req.oneway = "true" THEN StepAfter(cpc) ELSE cpc
    /\ UNCHANGED <<table, last, cid, cret, carr, cstart, gen, conn, srv, par>>

\* the connection loop reads the next request once the replies to the one
\* before are written, and the proxy and the handler run on it
CertServe ==
    /\ wire.prog = "cert"
    /\ wire.requests # <<>>
    /\ wire.pending = <<>>
    /\ LET head == Head(wire.requests)
       IN  /\ Serve(head.op, head.req)
           /\ wire' = [wire EXCEPT !.requests = Tail(@),
                                   !.pending = RepliesTo(head.n, last'.frames)]
    /\ UNCHANGED <<client, gen, conn, srv, par>>

\* the connection loop writes the reply emitted first
WireEmit ==
    /\ wire.pending # <<>>
    /\ wire' = [wire EXCEPT !.pending = Tail(@),
                            !.replies = Append(@, Head(wire.pending))]
    /\ UNCHANGED <<table, last, client, gen, conn, srv, par>>

\* run_client reads a reply: .call()? takes it as the reply of the call;
\* the iterator of .more()? yields it and ends after a reply without
\* continues; an error reply ends run_client
CertRecv ==
    /\ wire.prog = "cert"
    /\ wire.reading > 0
    /\ wire.replies # <<>>
    /\ LET f == Head(wire.replies).frame
           failed == f.error # "none"
           goes_on == ~failed /\ cpc = "Test10" /\ f.continues
       IN  /\ wire' = [wire EXCEPT !.replies = Tail(@),
                                   !.got = Delivered(wire),
                                   !.reading = IF goes_on THEN @ ELSE 0]
           /\ cpc' = IF failed THEN "Failed"
                     ELSE IF goes_on THEN cpc ELSE StepAfter(cpc)
           /\ cret' = IF ~failed /\ cpc # "Test10" THEN f.parameters ELSE cret
           /\ carr' = IF ~failed /\ cpc = "Test10"
                      THEN Append(carr, f.parameters.v.string) ELSE carr
           /\ cid' = IF ~failed /\ cpc = "Start"
                     THEN f.parameters.v.client_id.v ELSE cid
           /\ cstart' = IF ~failed /\ cpc = "Start" THEN now ELSE cstart
    /\ UNCHANGED <<table, last, gen, conn, srv, par>>

\* call.more().ping(ping)?: the request is written
PingSend ==
    /\ wire.prog = "ping"
    /\ wire.pc \in DOMAIN run_app
    /\ run_app[wire.pc] = "send"
    /\ wire' = [wire EXCEPT
                  !.requests = Append(@, [n |-> wire.sent + 1, op |-> "Ping",
                                          req |-> PingRequest]),
                  !.sent = @ + 1, !.reading = wire.sent + 1, !.pc = @ + 1]
    /\ UNCHANGED <<table, last, client, gen, conn, srv, par>>

\* the connection loop of the ping server reads the next request
PingServe ==
    /\ wire.prog = "ping"
    /\ wire.requests # <<>>
    /\ wire.pending = <<>>
    /\ LET head == Head(wire.requests)
           r == PingServerCall(NewCall(head.req), Table(lifetimes, contexts))
       IN  /\ wire' = [wire EXCEPT !.requests = Tail(@),
                                   !.pending = RepliesTo(head.n, r.call.frames)]
           /\ last' = [Idle EXCEPT !.op = "Ping", !.request = head.req,
                                   !.invoked = r.invoked, !.result = r.result,
                                   !.attempts = r.call.attempts,
                                   !.frames = r.call.frames]
    /\ UNCHANGED <<table, client, gen, conn, srv, par>>

\* .recv()?: one reply is read; an error reply ends run_app
PingRecv ==
    /\ wire.prog = "ping"
    /\ wire.pc \in DOMAIN run_app
    /\ run_app[wire.pc] = "recv"
    /\ wire.replies # <<>>
    /\ wire' = [wire EXCEPT !.replies = Tail(@),
                            !.got = Delivered(wire),
                            !.pc = IF Head(wire.replies).frame.error # "none"
                                   THEN Len(run_app) + 1 ELSE @ + 1]
    /\ UNCHANGED <<table, last, client, gen, conn, srv, par>>

NextWire ==
    \/ WireOpen \/ WireEmit
    \/ CertSend \/ CertServe \/ CertRecv
    \/ PingSend \/ PingServe \/ PingRecv

SpecWire == Init /\ [][NextWire]_vars

-----------------------------------------------------------------------------
(* Handlers of several connections in CertInterface::check_client_id and    *)
(* CertInterface::new_client_id at the same time, one statement at a time.  *)

InFlight(c) == par.thr[c].pc \notin {"idle", "done"}

\* a handler is called: start, or a TestN / End handler for an id of the
\* table with the test the table expects of it or with Test01
ParCall(c) ==
    /\ par.thr[c].pc = "idle"
    /\ LET others == {d \in Conns \ {c} : InFlight(d)}
           called(op, client_id, test, seen) ==
               [d \in Conns |->
                   IF d = c
                   THEN [IdleThread EXCEPT !.pc = "lock", !.op = op,
                                           !.client_id = client_id,
                                           !.test = test, !.seen = seen,
                                           !.peers = others]
                   ELSE IF d \in others
                        THEN [par.thr[d] EXCEPT !.peers = @ \cup {c}]
                        ELSE par.thr[d]]
       IN  \/ /\ Len(lifetimes) < MaxCallers
              /\ par' = [par EXCEPT !.thr = called("Start", "none", "none", FALSE)]
           \/ \E client_id \in DOMAIN contexts :
              \E test \in {contexts[client_id], "Test01"} :
                 par' = [par EXCEPT
                           !.thr = called("Test", client_id, test,
                                          contexts[client_id] = test)]
    /\ UNCHANGED <<table, last, client, gen, conn, srv, wire>>

\* let mut client_ids = self.client_ids.write().unwrap()
ParWrite(c) ==
    /\ par.thr[c].pc = "lock"
    /\ write(par.holders \ {c})
    /\ par' = [par EXCEPT !.holders = @ \cup {c},
                          !.thr[c].pc = IF par.thr[c].op = "Start"
                                        THEN "insert" ELSE "timeout"]
    /\ UNCHANGED <<table, last, client, gen, conn, srv, wire>>

\* ClientIds::check_client_id: self.check_lifetime_timeout()
ParTimeout(c) ==
    /\ par.thr[c].pc = "timeout"
    /\ LET T == check_lifetime_timeout(Table(lifetimes, contexts), now)
       IN  /\ lifetimes' = T.lifetimes
           /\ contexts' = T.contexts
           /\ par' = [par EXCEPT !.thr[c].pc = "get",
                                 !.thr[c].fresh =
                                    par.thr[c].client_id \in DOMAIN T.contexts]
    /\ UNCHANGED <<now, passed, last, client, gen, conn, srv, wire>>

\* match self.contexts.get_mut(client_id): Some(context) with
\* context.test == test goes on to the assignment, everything else is false
ParGet(c) ==
    /\ par.thr[c].pc = "get"
    /\ LET t == par.thr[c]
           ok == /\ t.client_id \in DOMAIN contexts
                 /\ contexts[t.client_id] = t.test
       IN  par' = [par EXCEPT !.thr[c].ok = ok,
                              !.thr[c].pc = IF ok THEN "set" ELSE "unlock"]
    /\ UNCHANGED <<table, last, client, gen, conn, srv, wire>>

\* context.test = next_test; true
ParSet(c) ==
    /\ par.thr[c].pc = "set"
    /\ LET t == par.thr[c]
       IN  contexts' = IF t.client_id \in DOMAIN contexts
                       THEN [contexts EXCEPT ![t.client_id] = NextTest(t.test)]
                       ELSE contexts
    /\ par' = [par EXCEPT !.thr[c].pc = "unlock"]
    /\ UNCHANGED <<now, lifetimes, passed, last, client, gen, conn, srv, wire>>

\* new_client_id: let now = Instant::now(); ... self.contexts.insert(..)
ParInsert(c) ==
    /\ par.thr[c].pc = "insert"
    /\ contexts' = (Hash(now) :> "Test01") @@ contexts
    /\ par' = [par EXCEPT !.thr[c].pc = "push", !.thr[c].at = now,
                          !.thr[c].client_id = Hash(now)]
    /\ UNCHANGED <<now, lifetimes, passed, last, client, gen, conn, srv, wire>>

\* self.lifetimes.push_back((now, client_id.clone()))
ParPush(c) ==
    /\ par.thr[c].pc = "push"
    /\ lifetimes' = Append(lifetimes, <<par.thr[c].at, par.thr[c].client_id>>)
    /\ par' = [par EXCEPT !.thr[c].pc = "unlock", !.thr[c].ok = TRUE]
    /\ UNCHANGED <<now, contexts, passed, last, client, gen, conn, srv, wire>>

\* the guard goes out of scope, and the handler replies ClientIdError when
\* check_client_id returned false
ParUnlock(c) ==
    /\ par.thr[c].pc = "unlock"
    /\ par' = [par EXCEPT !.holders = @ \ {c},
                          !.thr[c].pc = "done",
                          !.thr[c].reply = IF par.thr[c].ok THEN "none"
                                           ELSE ClientIdError]
    /\ UNCHANGED <<table, last, client, gen, conn, srv, wire>>

\* the connection is ready for its next request
ParReturn(c) ==
    /\ par.thr[c].pc = "done"
    /\ par' = [par EXCEPT !.thr = [d \in Conns |->
                                     IF d = c THEN IdleThread
                                     ELSE [par.thr[d] EXCEPT !.peers = @ \ {c}]]]
    /\ UNCHANGED <<table, last, client, gen, conn, srv, wire>>

\* max_lifetime + 1 seconds pass
ParTick ==
    /\ now \div LongStep < MaxEpochs
    /\ now' = now + LongStep
    /\ UNCHANGED <<lifetimes, contexts, passed, last, client, gen, conn, srv,
                   wire, par>>

Call == \E c \in Conns : ParCall(c)
Write == \E c \in Conns : ParWrite(c)
Timeout == \E c \in Conns : ParTimeout(c)
Get == \E c \in Conns : ParGet(c)
Set == \E c \in Conns : ParSet(c)
Insert == \E c \in Conns : ParInsert(c)
Push == \E c \in Conns : ParPush(c)
Unlock == \E c \in Conns : ParUnlock(c)
Return == \E c \in Conns : ParReturn(c)

NextPar ==
    \/ Call \/ Write \/ Timeout \/ Get \/ Set
    \/ Insert \/ Push \/ Unlock \/ Return \/ ParTick

SpecPar == Init /\ [][NextPar]_vars

-----------------------------------------------------------------------------
(* The generator (varlink/src/generator.rs).  Where the characters of a     *)
(* name matter the name is a sequence of one-character strings.             *)

Uppers ==
    <<"A", "B", "C", "D", "E", "F", "G", "H", "I", "J", "K", "L", "M",
      "N", "O", "P", "Q", "R", "S", "T", "U", "V", "W", "X", "Y", "Z">>
Lowers ==
    <<"a", "b", "c", "d", "e", "f", "g", "h", "i", "j", "k", "l", "m",
      "n", "o", "p", "q", "r", "s", "t", "u", "v", "w", "x", "y", "z">>

\* char::is_uppercase, char::to_lowercase
is_uppercase(ch) == \E i \in DOMAIN Uppers : Uppers[i] = ch
to_lowercase(ch) ==
    IF is_uppercase(ch)
    THEN Lowers[CHOOSE i \in DOMAIN Uppers : Uppers[i] = ch]
    ELSE ch

\* str.trim_left_matches('_'): the number of characters trimmed
RECURSIVE trim_left_count(_)
trim_left_count(str) ==
    IF str # <<>> /\ Head(str) = "_" THEN 1 + trim_left_count(Tail(str)) ELSE 0

\* str.split('_'): the pieces between underscores, empty ones included
RECURSIVE split(_, _)
split(str, piece) ==
    IF str = <<>> THEN <<piece>>
    ELSE IF Head(str) = "_" THEN <<piece>> \o split(Tail(str), <<>>)
    ELSE split(Tail(str), Append(piece, Head(str)))

\* words.join("_")
RECURSIVE join(_)
join(words) ==
    IF words = <<>> THEN <<>>
    ELSE IF Len(words) = 1 THEN words[1]
    ELSE words[1] \o <<"_">> \o join(Tail(words))

\* for ch in s.chars() { ... } and the words.push(buf) after it
RECURSIVE snake_chars(_, _, _, _)
snake_chars(s, words, buf, last_upper) ==
    IF s = <<>> THEN Append(words, buf)
    ELSE LET ch == Head(s)
             cut == buf # <<>> /\ buf # <<"'">> /\ is_uppercase(ch) /\ ~last_upper
         IN  snake_chars(Tail(s),
                         IF cut THEN Append(words, buf) ELSE words,
                         Append(IF cut THEN <<>> ELSE buf, to_lowercase(ch)),
                         is_uppercase(ch))

\* for s in str.split('_') { ... }
RECURSIVE snake_pieces(_, _)
snake_pieces(pieces, words) ==
    IF pieces = <<>> THEN words
    ELSE IF Head(pieces) = <<>> THEN snake_pieces(Tail(pieces), words)
    ELSE snake_pieces(Tail(pieces), snake_chars(Head(pieces), words, <<>>, FALSE))

to_snake_case(str) ==
    LET n == trim_left_count(str)
        words == [i \in 1 .. n |-> <<>>]
    IN  join(snake_pieces(split(SubSeq(str, n + 1, Len(str)), <<>>), words))

\* identifiers over an uppercase letter, a lowercase letter, a digit and '_'
IdentChars == {"a", "B", "1", "_"}
Idents == UNION {[1 .. n -> IdentChars] : n \in 0 .. MaxIdentLen}

\* varlink_parser::VType: the variants to_rust matches on
VBool == [kind |-> "Bool"]
VInt == [kind |-> "Int"]
VFloat == [kind |-> "Float"]
VString == [kind |-> "String"]
VObject == [kind |-> "Object"]
VTypename(v) == [kind |-> "Typename", name |-> v]
VEnum(elts) == [kind |-> "Enum", elts |-> elts]
VStruct(elts) == [kind |-> "Struct", elts |-> elts]

\* varlink_parser::VTypeExt
Plain(vtype) == [kind |-> "Plain", vtype |-> vtype]
Array(v) == [kind |-> "Array", elem |-> v]
Dict(v) == [kind |-> "Dict", elem |-> v]
Option(v) == [kind |-> "Option", elem |-> v]

\* one element of a VStruct: e.name, e.vtype
Argument(name, vtype) == [name |-> name, vtype |-> vtype]

\* what to_rust hands back: the text it returns and the two queues, which
\* it takes by mutable reference
Mapped(text, enumvec, structvec) ==
    [text |-> text, enumvec |-> enumvec, structvec |-> structvec]

VType_to_rust_i32(self, parent, enumvec, structvec) ==
    CASE self.kind = "Bool" -> Mapped("bool", enumvec, structvec)
      [] self.kind = "Int" -> Mapped("i32", enumvec, structvec)
      [] self.kind = "Float" -> Mapped("f64", enumvec, structvec)
      [] self.kind = "String" -> Mapped("String", enumvec, structvec)
      [] self.kind = "Object" -> Mapped("Value", enumvec, structvec)
      [] self.kind = "Typename" -> Mapped(self.name, enumvec, structvec)
      [] self.kind = "Enum" ->
            Mapped(parent, Append(enumvec, <<parent, self.elts>>), structvec)
      [] self.kind = "Struct" ->
            Mapped(parent, enumvec, Append(structvec, <<parent, self>>))

\* impl ToRust for VType
VType_to_rust(self, parent, enumvec, structvec) ==
    CASE self.kind = "Bool" -> Mapped("bool", enumvec, structvec)
      [] self.kind = "Int" -> Mapped("i64", enumvec, structvec)
      [] self.kind = "Float" -> Mapped("f64", enumvec, structvec)
      [] self.kind = "String" -> Mapped("String", enumvec, structvec)
      [] self.kind = "Object" -> Mapped("Value", enumvec, structvec)
      [] self.kind = "Typename" -> Mapped(self.name, enumvec, structvec)
      [] self.kind = "Enum" ->
            Mapped(parent, Append(enumvec, <<parent, self.elts>>), structvec)
      [] self.kind = "Struct" ->
            Mapped(parent, enumvec, Append(structvec, <<parent, self>>))

IsEmptyStruct_any_struct(v) ==
    /\ v.kind = "Plain"
    /\ v.vtype.kind = "Struct"

\* &VTypeExt::Plain(VType::Struct(ref s)) if s.elts.len() == 0
IsEmptyStruct(v) ==
    /\ v.kind = "Plain"
    /\ v.vtype.kind = "Struct"
    /\ Len(v.vtype.elts) = 0

\* impl ToRust for VTypeExt
RECURSIVE VTypeExt_to_rust(_, _, _, _)
VTypeExt_to_rust(self, parent, enumvec, structvec) ==
    CASE self.kind = "Plain" ->
            VType_to_rust(self.vtype, parent, enumvec, structvec)
      [] self.kind = "Array" ->
            LET r == VTypeExt_to_rust(self.elem, parent, enumvec, structvec)
            IN  Mapped("Vec<" \o r.text \o ">", r.enumvec, r.structvec)
      [] self.kind = "Dict" ->
            IF IsEmptyStruct(self.elem)
            THEN Mapped("varlink::StringHashSet", enumvec, structvec)
            ELSE LET r == VTypeExt_to_rust(self.elem, parent, enumvec,
                                           structvec)
                 IN  Mapped("varlink::StringHashMap<" \o r.text \o ">",
                            r.enumvec, r.structvec)
      [] self.kind = "Option" ->
            LET r == VTypeExt_to_rust(self.elem, parent, enumvec, structvec)
            IN  Mapped("Option<" \o r.text \o ">", r.enumvec, r.structvec)

\* the type expressions given to to_rust: every VType under at most depth
\* wrappers
PlainTypes ==
    {Plain(v) : v \in {VBool, VInt, VFloat, VString, VObject, VTypename("N"),
                       VEnum(<<"a", "type">>), VStruct(<<>>),
                       VStruct(<<Argument("x", Plain(VBool))>>)}}

RECURSIVE TypesOfDepth(_)
TypesOfDepth(depth) ==
    IF depth = 0 THEN PlainTypes
    ELSE LET inner == TypesOfDepth(depth - 1)
         IN  inner \cup {Array(v) : v \in inner} \cup {Dict(v) : v \in inner}
                   \cup {Option(v) : v \in inner}

\* fn is_rust_keyword
Keywords ==
    {"abstract", "alignof", "as", "become", "box", "break", "const",
     "continue", "crate", "do", "else", "enum", "extern", "false", "final",
     "fn", "for", "if", "impl", "in", "let", "loop", "macro", "match", "mod",
     "move", "mut", "offsetof", "override", "priv", "proc", "pub", "pure",
     "ref", "return", "Self", "self", "sizeof", "static", "struct", "super",
     "trait", "true", "type", "typeof", "unsafe", "unsized", "use", "virtual",
     "where", "while", "yield"}

is_rust_keyword(v) == v \in Keywords

replace_if_rust_keyword(v) == IF is_rust_keyword(v) THEN v \o "_" ELSE v

replace_if_rust_keyword_annotate_silent(v) ==
    [annotation |-> "", name |-> replace_if_rust_keyword(v)]

\* fn replace_if_rust_keyword_annotate: what it writes and what it returns
replace_if_rust_keyword_annotate(v) ==
    IF is_rust_keyword(v)
    THEN [annotation |-> " #[serde(rename = \"" \o v \o "\")]",
          name |-> v \o "_"]
    ELSE [annotation |-> "", name |-> v]

\* the characters of a name as the text they spell
RECURSIVE Str(_)
Str(chars) == IF chars = <<>> THEN "" ELSE Head(chars) \o Str(Tail(chars))

\* what the generator writes, one item per definition: a struct or enum with
\* its members, or a function of trait VarlinkCallError
Member(skip, annotation, name, type) ==
    [skip |-> skip, annotation |-> annotation, name |-> name, type |-> type]
Definition(kind, name, members) ==
    [kind |-> kind, name |-> name, members |-> members]
Function(name, inparms, error, some, struct, innames) ==
    [kind |-> "fn", name |-> name, inparms |-> inparms, error |-> error,
     some |-> some, struct |-> struct, innames |-> innames]

\* the writer and the two queues
Generator(w, enumvec, structvec) ==
    [w |-> w, enumvec |-> enumvec, structvec |-> structvec]

format_parent_of_struct(name, infix, field) == name \o infix

skip_serializing_always(vtype) == TRUE

\* if let VTypeExt::Option(_) = e.vtype: the member is written after
\* #[serde(skip_serializing_if = "Option::is_none")]
skip_serializing(vtype) == vtype.kind = "Option"

\* format!("{}_{}", t.name, e.name), format!("{}Reply_{}", ..),
\* format!("{}Args_{}", ..)
format_parent(name, infix, field) == name \o infix \o field

\* for e in &v.elts { .. }: the members written for a struct and the queues
\* after them
\* the value of an expression, computed once where it is used many times
Only(S) == CHOOSE x \in S : TRUE

RECURSIVE write_elts(_, _, _, _, _)
write_elts(elts, name, infix, enumvec, structvec) ==
    IF elts = <<>>
    THEN [members |-> <<>>, enumvec |-> enumvec, structvec |-> structvec]
    ELSE LET e == Head(elts)
             ename == replace_if_rust_keyword_annotate(e.name)
             r == VTypeExt_to_rust(e.vtype,
                                   format_parent(name, infix, e.name),
                                   enumvec, structvec)
             rest == write_elts(Tail(elts), name, infix, r.enumvec,
                                r.structvec)
         IN  [members |->
                 <<Member(skip_serializing(e.vtype), ename.annotation,
                          ename.name, r.text)>> \o rest.members,
              enumvec |-> rest.enumvec,
              structvec |-> rest.structvec]

\* for elt in iter { .. }: the variants written for an enum
write_variants(elts) ==
    [i \in 1 .. Len(elts) |->
        LET eltname == replace_if_rust_keyword_annotate(elts[i])
        IN  Member(FALSE, eltname.annotation, eltname.name, "")]

\* for t in self.typedefs.values() { .. }
RECURSIVE write_typedefs(_, _)
write_typedefs(typedefs, g) ==
    IF typedefs = <<>> THEN g
    ELSE LET t == Head(typedefs)
         IN  IF t.elt.kind = "Struct"
             THEN Only({write_typedefs(Tail(typedefs),
                           Generator(
                              Append(g.w, Definition("struct",
                                             replace_if_rust_keyword(t.name),
                                             r.members)),
                              r.enumvec, r.structvec)) :
                        r \in {write_elts(t.elt.elts, t.name, "_", g.enumvec,
                                          g.structvec)}})
             ELSE Only({write_typedefs(Tail(typedefs), next) :
                        next \in {Generator(
                                     Append(g.w, Definition("enum", t.name,
                                               write_variants(t.elt.elts))),
                                     g.enumvec, g.structvec)}})

\* for t in self.methods.values() { .. }
RECURSIVE write_methods(_, _)
write_methods(methods, g) ==
    IF methods = <<>> THEN g
    ELSE LET t == Head(methods)
         IN  Only({Only({write_methods(Tail(methods),
                            Generator(
                               g.w \o <<Definition("struct",
                                                   t.name \o "Reply_",
                                                   out.members),
                                        Definition("struct",
                                                   t.name \o "Args_",
                                                   inp.members)>>,
                               inp.enumvec, inp.structvec)) :
                         inp \in {write_elts(t.input.elts, t.name, "Args_",
                                             out.enumvec, out.structvec)}}) :
                   out \in {write_elts(t.output.elts, t.name, "Reply_",
                                       g.enumvec, g.structvec)}})

\* for t in self.errors.values() { .. }; the name of an error is kept as its
\* characters, since to_snake_case is applied to it
RECURSIVE write_errors(_, _)
write_errors(errors, g) ==
    IF errors = <<>> THEN g
    ELSE LET t == Head(errors)
         IN  Only({write_errors(Tail(errors),
                      Generator(
                         Append(g.w, Definition("struct",
                                                Str(t.name) \o "Args_",
                                                r.members)),
                         r.enumvec, r.structvec)) :
                   r \in {write_elts(t.parm.elts, Str(t.name), "Args_",
                                     g.enumvec, g.structvec)}})

\* for (name, v) in structvec.drain(..) { .. }: g.structvec is nstructvec
RECURSIVE drain_structvec(_, _)
drain_structvec(structvec, g) ==
    IF structvec = <<>> THEN g
    ELSE LET name == Head(structvec)[1]
             v == Head(structvec)[2]
         IN  Only({drain_structvec(Tail(structvec),
                      Generator(
                         Append(g.w, Definition("struct",
                                                replace_if_rust_keyword(name),
                                                r.members)),
                         r.enumvec, r.structvec)) :
                   r \in {write_elts(v.elts, name, "_", g.enumvec,
                                     g.structvec)}})

\* for (name, v) in enumvec.drain(..) { .. }
drain_enumvec(enumvec) ==
    [i \in 1 .. Len(enumvec) |->
        Definition("enum", replace_if_rust_keyword(enumvec[i][1]),
                   write_variants(enumvec[i][2]))]

loop_break_always(nstructvec) == TRUE

\* if nstructvec.len() == 0 { break; }
loop_break(nstructvec) == Len(nstructvec) = 0

\* loop { .. }: the writer when the loop is left, and the times it ran
RECURSIVE fixed_point_loop(_, _)
fixed_point_loop(g, rounds) ==
    Only({LET w == s.w \o drain_enumvec(s.enumvec)
          IN  IF loop_break(s.structvec)
              THEN [w |-> w, enumvec |-> <<>>, structvec |-> <<>>,
                    rounds |-> rounds + 1]
              ELSE fixed_point_loop(Generator(w, <<>>, s.structvec),
                                    rounds + 1) :
          s \in {drain_structvec(g.structvec,
                                 Generator(g.w, g.enumvec, <<>>))}})

\* inparms and innames of one function of VarlinkCallError
RECURSIVE call_error_parms(_, _, _, _)
call_error_parms(elts, name, enumvec, structvec) ==
    IF elts = <<>>
    THEN [inparms |-> <<>>, innames |-> <<>>, enumvec |-> enumvec,
          structvec |-> structvec]
    ELSE LET e == Head(elts)
             r == VTypeExt_to_rust(e.vtype,
                                   format_parent(name, "Args_", e.name),
                                   enumvec, structvec)
             rest == call_error_parms(Tail(elts), name, r.enumvec,
                                      r.structvec)
         IN  [inparms |->
                 <<[name |-> replace_if_rust_keyword(e.name),
                    type |-> r.text]>> \o rest.inparms,
              innames |->
                 <<replace_if_rust_keyword(e.name)>> \o rest.innames,
              enumvec |-> rest.enumvec,
              structvec |-> rest.structvec]

\* pub trait VarlinkCallError: for t in self.errors.values() { .. }
RECURSIVE write_call_errors(_, _, _)
write_call_errors(errors, iname, g) ==
    IF errors = <<>> THEN g
    ELSE LET t == Head(errors)
         IN  Only({write_call_errors(Tail(errors), iname,
                      Generator(
                         Append(g.w,
                                Function("reply_" \o Str(to_snake_case(t.name)),
                                         r.inparms,
                                         iname \o "." \o Str(t.name),
                                         Len(t.parm.elts) > 0,
                                         Str(t.name) \o "Args_",
                                         r.innames)),
                         r.enumvec, r.structvec)) :
                   r \in {call_error_parms(t.parm.elts, Str(t.name),
                                           g.enumvec, g.structvec)}})

\* impl InterfaceToRust for Interface: to_rust, up to the end of trait
\* VarlinkCallError
Interface_to_rust(self) ==
    LET typedefs == write_typedefs(self.typedefs, Generator(<<>>, <<>>, <<>>))
        methods == write_methods(self.methods, typedefs)
        errors == write_errors(self.errors, methods)
    IN  Only({Only({[w |-> helpers.w, enumvec |-> helpers.enumvec,
                     structvec |-> helpers.structvec, rounds |-> loop.rounds,
                     looped |-> loop.w] :
                    helpers \in {write_call_errors(
                                    self.errors, self.name,
                                    Generator(loop.w, loop.enumvec,
                                              loop.structvec))}}) :
              loop \in {fixed_point_loop(errors, 0)}})

\* pub trait Call{}_: VarlinkCallError, for t in self.methods.values()
write_call_traits(methods) ==
    [i \in DOMAIN methods |-> "Call" \o methods[i].name \o "_"]

\* the names of fields and variants: one reserved, one not
FieldNames == {"f", "type"}

\* the types of the fields: plain ones, the string set and inline structs of
\* one field nested to the given depth, bare or in an array
RECURSIVE FieldTypes(_)
FieldTypes(nest) ==
    LET flat == {Plain(VBool), Plain(VEnum(<<"a", "type">>)),
                 Dict(Plain(VStruct(<<>>))), Option(Plain(VString)),
                 Array(Option(Plain(VBool)))}
    IN  IF nest = 0 THEN flat
        ELSE LET structs ==
                    {Plain(VStruct(<<Argument(n, v)>>)) :
                        n \in FieldNames, v \in FieldTypes(nest - 1)}
             IN  flat \cup structs \cup {Array(v) : v \in structs}

\* the structs varied: no field, or one field of any of the field types
Structs ==
    {VStruct(<<>>)} \cup
    {VStruct(<<Argument(n, v)>>) : n \in FieldNames, v \in FieldTypes(MaxNest)}

\* the structs everywhere else: no field, or two fields with inline types
Others ==
    {VStruct(<<>>),
     VStruct(<<Argument("type", Option(Plain(VEnum(<<"a", "type">>)))),
               Argument("f", Plain(VStruct(<<Argument("f", Plain(VInt))>>)))>>)}

Positions == {"typedef", "input", "output", "parm"}

\* an interface with two typedefs, one method and one error, the struct v
\* at the position pos and the struct o at the other positions
Interface(pos, v, o) ==
    LET at(p) == IF p = pos THEN v ELSE o
    IN  [name |-> "org.example",
         typedefs |-> <<[name |-> "Kind", elt |-> VEnum(<<"a", "type">>)],
                        [name |-> "T", elt |-> at("typedef")]>>,
         methods |-> <<[name |-> "M", input |-> at("input"),
                        output |-> at("output")]>>,
         errors |-> <<[name |-> <<"E", "r", "r">>, parm |-> at("parm")]>>]

\* the errors whose helper is written and called: the two of
\* org.varlink.certification and one with a reserved and optional field
ErrorDecls ==
    {[name |-> <<"C", "l", "i", "e", "n", "t", "I", "d", "E", "r", "r", "o",
                 "r">>,
      parm |-> VStruct(<<>>)],
     [name |-> <<"C", "e", "r", "t", "i", "f", "i", "c", "a", "t", "i", "o",
                 "n", "E", "r", "r", "o", "r">>,
      parm |-> VStruct(<<Argument("wants", Plain(VObject)),
                         Argument("got", Plain(VObject))>>)],
     [name |-> <<"T", "y", "p", "e", "E", "r", "r", "o", "r">>,
      parm |-> VStruct(<<Argument("type", Option(Plain(VString))),
                         Argument("f", Plain(VInt))>>)]}

\* the values passed for a parameter of the given type; NoValue is None
ArgValues(v) ==
    CASE v = Plain(VObject) -> {JS("x"), EmptyObject}
      [] v = Plain(VInt) -> {JI(1)}
      [] v = Option(Plain(VString)) -> {NoValue, JS("s")}

RECURSIVE ArgChoices(_)
ArgChoices(elts) ==
    IF elts = <<>> THEN {<<>>}
    ELSE {<<a>> \o rest :
             a \in ArgValues(Head(elts).vtype), rest \in ArgChoices(Tail(elts))}

\* serde_json::to_value({}Args_ { innames }): the derived Serialize writes
\* each member under its wire name and skips an Option that is None
to_value_args(elts, args) ==
    JO([n \in {elts[i].name : i \in {j \in DOMAIN elts : args[j] # NoValue}}
          |-> args[CHOOSE i \in DOMAIN elts : elts[i].name = n]])

call_function_always_some(fn, elts, c, args) ==
    reply_struct(c, ReplyError(fn.error, to_value_args(elts, args)))

\* the body written for reply_{sname}: self.reply_struct(varlink::Reply::
\* error("{iname}.{ename}", Some(serde_json::to_value(..)?) or None))
call_function(fn, elts, c, args) ==
    reply_struct(c, ReplyError(fn.error,
                               IF fn.some THEN to_value_args(elts, args)
                               ELSE NoValue))

\* the Rust type written for a type of the IDL, as a descriptor for serde
RECURSIVE SerdeOf(_)
SerdeOf(v) ==
    CASE v = Plain(VBool) -> TBool
      [] v = Plain(VInt) -> TInt
      [] v = Plain(VFloat) -> TFloat
      [] v = Plain(VString) -> TString
      [] v = Plain(VObject) -> TValue
      [] v.kind = "Array" -> TVec(SerdeOf(v.elem))
      [] v.kind = "Dict" ->
            IF IsEmptyStruct(v.elem) THEN TSet ELSE TMap(SerdeOf(v.elem))
      [] v.kind = "Option" -> TOption(SerdeOf(v.elem))

\* pub struct {}Args_ for the parameters of an error
ErrorArgs_(elts) ==
    LET at(n) == elts[CHOOSE i \in DOMAIN elts : elts[i].name = n].vtype
        names(option) ==
            {elts[i].name :
                i \in {j \in DOMAIN elts :
                          (elts[j].vtype.kind = "Option") = option}}
    IN  TStruct([n \in names(FALSE) |-> SerdeOf(at(n))],
                [n \in names(TRUE) |-> SerdeOf(at(n).elem)])

\* the errors of the core itself, for which varlink::Error::is_error holds
CoreErrors ==
    {"org.varlink.service.InterfaceNotFound",
     "org.varlink.service.MethodNotFound",
     "org.varlink.service.MethodNotImplemented",
     "org.varlink.service.InvalidParameter"}

is_error(e) == e.error \in CoreErrors

\* a value of the enum Error written: the variant and what it carries
Error(variant, carried) == [variant |-> variant, carried |-> carried]

Error_from_unknown_on_err(e, errors, iname) ==
    LET known == {t \in errors : e.error = iname \o "." \o Str(t.name)}
    IN  IF is_error(e) THEN Error("VarlinkError", e)
        ELSE IF known # {}
                /\ \A t \in known :
                      \/ e.parameters = NoValue
                      \/ CanDeserialize(TOption(ErrorArgs_(t.parm.elts)),
                                        e.parameters)
        THEN LET t == CHOOSE t \in known : TRUE
                 ty == ErrorArgs_(t.parm.elts)
             IN  Error(Str(t.name),
                       IF e.parameters # NoValue
                       THEN FromValue(ty, e.parameters) ELSE NoValue)
        ELSE Error("UnknownError_", e)

\* impl From<varlink::Reply> for Error, as written for the given errors of
\* the interface iname; None is carried as NoValue
Error_from(e, errors, iname) ==
    LET known == {t \in errors : e.error = iname \o "." \o Str(t.name)}
    IN  IF is_error(e) THEN Error("VarlinkError", e)
        ELSE IF known # {}
        THEN LET t == CHOOSE t \in known : TRUE
                 ty == ErrorArgs_(t.parm.elts)
             IN  Error(Str(t.name),
                       IF /\ e.parameters # NoValue
                          /\ CanDeserialize(TOption(ty), e.parameters)
                       THEN FromValue(ty, e.parameters) ELSE NoValue)
        ELSE Error("UnknownError_", e)

\* the replies with error set that a client is sent
ErrorNames ==
    {M("ClientIdError"), M("CertificationError"), M("TypeError"), M("Nope"),
     "org.example.Other", "org.varlink.service.MethodNotFound",
     "org.varlink.service.InvalidParameter"}
ErrorParameters ==
    {NoValue, EmptyObject, JS("x"),
     JO([wants |-> JS("x"), got |-> EmptyObject]),
     JO([wants |-> JS("x")]),
     JO([f |-> JI(1)]),
     JO([type |-> JS("s"), f |-> JI(1)]),
     JO([type |-> JI(1), f |-> JI(1)]),
     JO([method |-> JS("Nope")])}
ErrorReplies == {ReplyError(n, p) : n \in ErrorNames, p \in ErrorParameters}

GenIdle == [op |-> "none", input |-> <<>>, output |-> <<>>]

\* Error::from on one reply
ErrorFrom ==
    /\ gen.op = "none"
    /\ \E e \in ErrorReplies :
          gen' = [op |-> "from", input |-> e,
                  output |-> Error_from(e, ErrorDecls, Iface)]
    /\ UNCHANGED <<table, last, client, conn, threads>>

\* the helper of trait VarlinkCallError written for one error, and a call
\* of it
ErrorHelper ==
    /\ gen.op = "none"
    /\ \E t \in ErrorDecls, oneway \in {"none", "true"} :
          \E args \in ArgChoices(t.parm.elts) :
             LET fn == write_call_errors(<<t>>, Iface,
                                         Generator(<<>>, <<>>, <<>>)).w[1]
                 c == NewCall(Request(M("Test01"), "none", oneway, "none",
                                      NoValue))
             IN  gen' = [op |-> "reply_error",
                         input |-> [error |-> t, args |-> args, call |-> c],
                         output |-> [fn |-> fn,
                                     call |-> call_function(fn, t.parm.elts,
                                                            c, args)]]
    /\ UNCHANGED <<table, last, client, conn, threads>>

\* the names of the typedefs, methods and errors in the order of their keys
KeyOrder == <<"Err", "Fail", "Kind", "M", "Ping", "T">>
Rank(key) == CHOOSE i \in DOMAIN KeyOrder : KeyOrder[i] = key

values_hashed(keys, members, seed) ==
    [i \in DOMAIN members |->
        IF seed = 0 THEN members[i] ELSE members[Len(members) + 1 - i]]

\* self.typedefs.values(), self.methods.values(), self.errors.values(): the
\* members of a map of the parsed interface in the order of their keys,
\* whatever the state of the process (seed) and the order in the text
values(keys, members, seed) ==
    [i \in DOMAIN members |->
        members[CHOOSE j \in DOMAIN members :
                   Cardinality({k \in DOMAIN members :
                                   Rank(keys[k]) < Rank(keys[j])}) = i - 1]]

\* Varlink::from_string: the interface of the text, its typedefs, methods
\* and errors in the order the maps give them
from_string(text, seed) ==
    [name |-> text.name,
     typedefs |-> values([i \in DOMAIN text.typedefs |-> text.typedefs[i].name],
                         text.typedefs, seed),
     methods |-> values([i \in DOMAIN text.methods |-> text.methods[i].name],
                        text.methods, seed),
     errors |-> values([i \in DOMAIN text.errors |-> Str(text.errors[i].name)],
                       text.errors, seed)]

\* fn generate: the text is parsed and the interface written
generate(text, seed) ==
    CHOOSE written \in {Interface_to_rust(vr) : vr \in {from_string(text, seed)}} :
        TRUE

Reversed(members) ==
    [i \in DOMAIN members |-> members[Len(members) + 1 - i]]

\* the texts generate is run on: two typedefs, two methods and two errors,
\* declared in either order
Text(pos, v, o, backwards) ==
    LET i == Interface(pos, v, o)
        methods == i.methods \o <<[name |-> "Ping", input |-> o,
                                   output |-> v]>>
        errors == i.errors \o <<[name |-> <<"F", "a", "i", "l">>,
                                 parm |-> v]>>
    IN  [name |-> i.name,
         typedefs |-> IF backwards THEN Reversed(i.typedefs) ELSE i.typedefs,
         methods |-> IF backwards THEN Reversed(methods) ELSE methods,
         errors |-> IF backwards THEN Reversed(errors) ELSE errors]

Texts ==
    {Text(pos, v, o, backwards) :
        pos \in Positions, v \in Others, o \in Others, backwards \in BOOLEAN}

\* what differs between two runs of the generator on the same text
Seeds == {0, 1}

\* generate run on a text
GenerateOnce ==
    /\ gen.op = "none"
    /\ \E text \in Texts, first \in Seeds :
          gen' = [op |-> "generate_once",
                  input |-> [text |-> text, seeds |-> <<first>>],
                  output |-> <<generate(text, first)>>]
    /\ UNCHANGED <<table, last, client, conn, threads>>

\* generate run on the same text once more
GenerateTwice ==
    /\ gen.op = "generate_once"
    /\ \E second \in Seeds :
          gen' = [op |-> "generate_twice",
                  input |-> [gen.input EXCEPT !.seeds = Append(@, second)],
                  output |-> Append(gen.output, generate(gen.input.text, second))]
    /\ UNCHANGED <<table, last, client, conn, threads>>

\* the generator on one interface
Generate ==
    /\ gen.op = "none"
    /\ \E pos \in Positions, v \in Structs, o \in Others :
          gen' = [op |-> "generate", input |-> Interface(pos, v, o),
                  output |-> Interface_to_rust(Interface(pos, v, o))]
    /\ UNCHANGED <<table, last, client, conn, threads>>

\* the four scalars Test06 replies and Test07 takes as a struct
ScalarFields ==
    <<Argument("bool", Plain(VBool)), Argument("int", Plain(VInt)),
      Argument("float", Plain(VFloat)), Argument("string", Plain(VString))>>

\* methods of org.varlink.certification as CertInterface implements them:
\* Start, a method with scalars only, and the two with an inline struct
Certification(backwards) ==
    LET client_id == Argument("client_id", Plain(VString))
        methods ==
            <<[name |-> "Start", input |-> VStruct(<<>>),
               output |-> VStruct(<<client_id>>)],
              [name |-> "Test01", input |-> VStruct(<<client_id>>),
               output |-> VStruct(<<Argument("bool", Plain(VBool))>>)],
              [name |-> "Test06", input |-> VStruct(<<client_id>> \o ScalarFields),
               output |->
                  VStruct(<<Argument("struct", Plain(VStruct(ScalarFields)))>>)],
              [name |-> "Test07",
               input |->
                  VStruct(<<client_id,
                            Argument("struct", Plain(VStruct(ScalarFields)))>>),
               output |-> VStruct(<<Argument("map", Dict(Plain(VString)))>>)]>>
    IN  [name |-> "org.varlink.certification",
         typedefs |-> <<>>,
         methods |-> IF backwards THEN Reversed(methods) ELSE methods,
         errors |-> <<[name |-> <<"E", "r", "r">>, parm |-> VStruct(<<>>)]>>]

\* the generator on the certification interface
GenerateCertification ==
    /\ gen.op = "none"
    /\ \E backwards \in BOOLEAN :
          gen' = [op |-> "generate_certification",
                  input |-> Certification(backwards),
                  output |->
                     [w |-> Interface_to_rust(Certification(backwards)).w,
                      traits |-> write_call_traits(Certification(backwards).methods)]]
    /\ UNCHANGED <<table, last, client, conn, threads>>

\* field names with and without '_' and the types they are given
UnderscoreNames == {"b", "b_c"}
UnderscoreTypes ==
    {Plain(VInt),
     Plain(VStruct(<<Argument("y", Plain(VInt))>>)),
     Plain(VStruct(<<Argument("c", Plain(VStruct(<<Argument("x", Plain(VInt))>>)))>>)),
     Plain(VStruct(<<Argument("c", Plain(VEnum(<<"one", "two">>)))>>))}

\* an interface with one typedef of two fields and one method with an
\* inline struct as its input field b
WithFields(tname, first, second) ==
    [name |-> "org.example",
     typedefs |-> <<[name |-> tname, elt |-> VStruct(<<first, second>>)]>>,
     methods |->
        <<[name |-> "M",
           input |-> VStruct(<<Argument("b", Plain(VStruct(<<Argument("y", Plain(VInt))>>)))>>),
           output |-> VStruct(<<>>)]>>,
     errors |-> <<>>]

\* the generator on an interface whose field names may contain '_'
GenerateFields ==
    /\ gen.op = "none"
    /\ \E tname \in {"A", "MArgs"}, n1 \in UnderscoreNames,
          t1 \in UnderscoreTypes, t2 \in UnderscoreTypes :
          LET n2 == CHOOSE n \in UnderscoreNames : n # n1
              self == WithFields(tname, Argument(n1, t1), Argument(n2, t2))
          IN  gen' = [op |-> "generate_fields", input |-> self,
                      output |-> Interface_to_rust(self)]
    /\ UNCHANGED <<table, last, client, conn, threads>>

\* e.vtype.to_rust(parent, &mut enumvec, &mut structvec) with both queues
\* empty
ToRust ==
    /\ gen.op = "none"
    /\ \E v \in TypesOfDepth(MaxDepth) :
          gen' = [op |-> "to_rust", input |-> v,
                  output |-> VTypeExt_to_rust(v, "P_f", <<>>, <<>>)]
    /\ UNCHANGED <<table, last, client, conn, threads>>

\* to_snake_case on one identifier
SnakeCase ==
    /\ gen.op = "none"
    /\ \E str \in Idents :
          gen' = [op |-> "to_snake_case", input |-> str,
                  output |-> to_snake_case(str)]
    /\ UNCHANGED <<table, last, client, conn, threads>>

NextGen ==
    \/ SnakeCase
    \/ ToRust
    \/ Generate
    \/ GenerateOnce
    \/ GenerateTwice
    \/ GenerateCertification
    \/ GenerateFields
    \/ ErrorHelper
    \/ ErrorFrom

SpecGen == Init /\ [][NextGen]_vars

-----------------------------------------------------------------------------
(* A client that connects to an address and later drops the stream *)

Schemes ==
    {tcp, unix, <<"s", "s", "h", ":">>, <<"u", "n", "i", "x">>,
     <<"T", "C", "P", ":">>, <<>>}
Bodies ==
    {<<"h", ":", "1">>, <<"/", "p">>, <<"/", "p", ";", "m">>, <<"@", "n">>,
     <<"@", "n", ";", "m">>, <<"@", "a", "@", "b">>, <<";", "@", "n">>,
     <<"/", "p", ";", "a", ";", "b">>, <<"[", ":", "]", ":", "2">>, <<";">>,
     <<>>}
Addresses ==
    {s \o b : s \in Schemes, b \in Bodies}
    \cup {exec \o b : b \in {<<"/", "x">>, <<"x", ";", "y">>}}

Connect ==
    /\ conn.op = "none"
    /\ \E input \in Addresses, linux \in BOOLEAN, fd \in {3, 4},
          spawned \in BOOLEAN, dialled \in BOOLEAN :
          conn' = connect(input, linux, fd, spawned, dialled)
    /\ UNCHANGED <<table, last, client, gen, threads>>

Drop ==
    /\ conn.op = "connect"
    /\ conn.result = "Ok"
    /\ \E exited \in BOOLEAN :
          /\ exited => conn.stream.child
          /\ conn' = drop(conn, exited)
    /\ UNCHANGED <<table, last, client, gen, threads>>

NextClient == Connect \/ Drop

SpecClient == Init /\ [][NextClient]_vars

\* a stream that connect has returned goes out of scope in the end
SpecClientLive ==
    /\ SpecClient
    /\ WF_vars(Drop)

-----------------------------------------------------------------------------
(* Properties of the client-id table (checked under Spec) *)

Expired(instant) == as_secs(now - instant) > max_lifetime

QueueIds == {lifetimes[i][2] : i \in DOMAIN lifetimes}

NothingExpired ==
    /\ \A i \in DOMAIN lifetimes : ~Expired(lifetimes[i][1])
    /\ DOMAIN contexts \subseteq QueueIds

\* C3 as stated: right after every operation on the table, new_client_id
\* (Start) as well as check_client_id (TestN, End), no entry older than
\* max_lifetime is left in the queue and none without a queue entry in the map.
C3_EvictsOnEveryOperation ==
    last.op \in {"NewClientId", "CheckClientId"} => NothingExpired

\* C3, amended: right after every check_client_id (TestN, End) no entry older
\* than max_lifetime is left in the queue, every id of the map has a queue
\* entry, and the id of a check that passed is in the map, so eviction came
\* before the lookup; new_client_id (Start) evicts nothing.
C3_EvictsOnCheck ==
    /\ last.op = "CheckClientId" =>
          /\ NothingExpired
          /\ last.id_ok = "pass" => last.client_id \in DOMAIN contexts
    /\ last.op = "NewClientId" => last.evicted = 0

C3_Witness ==
    /\ last.op = "CheckClientId"
    /\ last.evicted > 0
    /\ lifetimes # <<>>

-----------------------------------------------------------------------------
(* Properties of one request to the certification service (checked under   *)
(* SpecCalls); last describes the request handled most recently.            *)

AllFlags == {"more", "oneway", "upgrade"}

TestIndex(test) == CHOOSE i \in DOMAIN Tests : Tests[i] = test

\* the method after test in the order Test01, ..., Test11, End
Following(test) ==
    IF TestIndex(test) = Len(Tests) THEN test ELSE Tests[TestIndex(test) + 1]

\* the passes of the client-id check that may come right before a pass of test
Preceding(test) ==
    IF test = "Test01" THEN {"none"}
    ELSE IF test = "End" THEN {"Test11", "End"}
    ELSE {Tests[TestIndex(test) - 1]}

IsTestCall == last.invoked /\ \E i \in DOMAIN Tests : Tests[i] = last.op

OnlyReply(r) == last.attempts = <<r>>

ReplyTexts ==
    <<"Reply number 1", "Reply number 2", "Reply number 3", "Reply number 4",
      "Reply number 5", "Reply number 6", "Reply number 7", "Reply number 8",
      "Reply number 9", "Reply number 10">>

\* C4: a Test10 request that passes both checks gets exactly ten replies with
\* the strings "Reply number 1" .. "Reply number 10", the first nine with
\* continues set and the tenth without; no reply has continues and an error.
C4_Test10Stream ==
    /\ last.op = "Test10" /\ last.req_ok = "pass" =>
          /\ Len(last.frames) = Len(ReplyTexts)
          /\ \A i \in DOMAIN last.frames :
                last.frames[i] = [error |-> "none",
                                  parameters |-> JO([string |-> JS(ReplyTexts[i])]),
                                  continues |-> i < Len(ReplyTexts)]
    /\ \A i \in DOMAIN last.attempts :
          ~(last.attempts[i].continues /\ last.attempts[i].error # "none")

C4_Witness ==
    /\ last.op = "Test10"
    /\ last.req_ok = "pass"
    /\ last.frames # <<>>

\* C5: an error reply is the only reply of its call: nothing is replied
\* before or after a ClientIdError or a CertificationError, by Test10 as by
\* every other handler.
C5_ErrorTerminates ==
    \A i \in DOMAIN last.attempts :
        last.attempts[i].error # "none" => Len(last.attempts) = 1

C5_Witness ==
    /\ last.op = "Test10"
    /\ last.request.more = "true"
    /\ last.id_ok = "pass"
    /\ last.req_ok = "fail"
    /\ last.attempts # <<>>

\* C6: a request with oneway = true gets no reply frame, whatever its handler
\* tries to reply; Test11 on its passing path does not try to reply at all.
C6_OnewayNoReply ==
    /\ last.op # "none" /\ last.request.oneway = "true" => last.frames = <<>>
    /\ last.op = "Test11" /\ last.req_ok = "pass" =>
          last.attempts = <<>> /\ last.frames = <<>>

C6_Witness ==
    /\ last.op = "Test11"
    /\ last.request.oneway = "true"
    /\ last.req_ok = "pass"

NormalRequest == ~AnyTrue(last.request, AllFlags)

\* C7: a request with none of more, oneway, upgrade set that reaches a handler
\* of the certification interface gets exactly one reply frame: the success
\* reply, ClientIdError or CertificationError.
C7_OneReplyFrame ==
    last.op # "none" /\ last.invoked /\ NormalRequest =>
        /\ Len(last.frames) = 1
        /\ last.frames[1].error \in {"none", ClientIdError, CertificationError}
        /\ ~last.frames[1].continues

C7_Witness ==
    /\ last.op = "Test10"
    /\ last.invoked
    /\ NormalRequest
    /\ last.id_ok = "pass"
    /\ Len(last.frames) = 1

NormalMethods ==
    {"Start", "Test01", "Test02", "Test03", "Test04", "Test05", "Test06",
     "Test07", "Test08", "Test09", "End"}

\* the request is not of the mode its method is called in
WrongMode ==
    \/ last.op \in NormalMethods /\ AnyTrue(last.request, AllFlags)
    \/ last.op = "Test10" /\ (last.request.more # "true"
                              \/ AnyTrue(last.request, {"oneway", "upgrade"}))
    \/ last.op = "Test11" /\ (last.request.oneway # "true"
                              \/ AnyTrue(last.request, {"more", "upgrade"}))

TwoFlags == Cardinality({f \in AllFlags : last.request[f] = "true"}) >= 2

\* C8 as stated: every request that is not of its method's call mode is
\* replied CertificationError, and no request with two flags set passes.
C8_WrongModeRejected ==
    last.invoked =>
        /\ WrongMode => /\ Len(last.attempts) = 1
                        /\ last.attempts[1].error = CertificationError
        /\ TwoFlags => last.req_ok # "pass"

\* C8, amended: a request that is not of its method's call mode and whose
\* client-id check did not fail (Start has none) is replied
\* CertificationError; no request with two flags set passes.
C8_WrongModeRejectedAfterIdCheck ==
    last.invoked =>
        /\ WrongMode /\ last.id_ok # "fail" =>
              /\ last.req_ok = "fail"
              /\ Len(last.attempts) = 1
              /\ last.attempts[1].error = CertificationError
        /\ TwoFlags => last.req_ok # "pass"

C8_Witness ==
    /\ last.op = "Test11"
    /\ last.invoked
    /\ last.id_ok = "pass"
    /\ last.request.oneway = "true"
    /\ last.request.more = "true"
    /\ last.req_ok = "fail"

-----------------------------------------------------------------------------
(* Properties of run_client (checked under SpecSelfTest) *)

\* the id run_client got from Start is not older than max_lifetime
InTime == cstart >= 0 => as_secs(now - cstart) <= max_lifetime

\* the call served last passed every check and got no error reply
LastPassed ==
    last.op # "none" =>
        /\ last.result = "Ok"
        /\ last.invoked
        /\ last.id_ok # "fail"
        /\ last.req_ok = "pass"
        /\ \A i \in DOMAIN last.attempts : last.attempts[i].error = "none"

EndReplied ==
    /\ last.op = "End"
    /\ last.frames = <<ReplyParameters(JO([all_ok |-> JB(TRUE)]))>>

\* C1 as stated: run_client never gets an error reply and never waits for a
\* reply that does not come: each of its calls passes the client-id check and
\* the request check, and when it is done End has replied all_ok.
C1_SelfTestPasses ==
    /\ cpc \notin {"Failed", "Blocked"}
    /\ LastPassed
    /\ cpc = "Done" => EndReplied

\* C1, amended: as long as the id run_client got from Start is not older than
\* max_lifetime, run_client never gets an error reply and never waits for a
\* reply that does not come: each call passes both checks, and when it is
\* done End has replied all_ok.
C1_SelfTestPassesInTime ==
    InTime =>
        /\ cpc \notin {"Failed", "Blocked"}
        /\ LastPassed
        /\ cpc = "Done" => EndReplied

C1_Witness ==
    /\ cpc = "Done"
    /\ EndReplied
    /\ cstart >= 0
    /\ as_secs(now - cstart) = max_lifetime

-----------------------------------------------------------------------------
(* Properties of the generated proxy (checked under SpecProxy) *)

LastOutcome ==
    [invoked |-> last.invoked, result |-> last.result,
     attempts |-> last.attempts, frames |-> last.frames]

\* the same request with parameters: {}
WithEmptyParameters(req) == [req EXCEPT !.parameters = EmptyObject]

\* C9: a request without parameters gets from the proxy what the same request
\* with parameters: {} gets: the handler runs or not in both cases, call
\* returns the same result and the same replies are made.
C9_AbsentParametersAsEmpty ==
    last.op = "ProxyCall" /\ last.request.parameters = NoValue =>
        LastOutcome =
            Outcome(PingCall(NewCall(WithEmptyParameters(last.request)),
                             Table(lifetimes, contexts)))

OwnUnknownMethod ==
    /\ last.op = "ProxyCall"
    /\ InterfaceOf(last.request.method) = PingIface
    /\ MemberOf(last.request.method) \notin {"Ping", "Stop", "Find"}

\* C10: a request naming a method of the proxy's own interface that the
\* interface does not have is replied MethodNotFound, with the whole
\* "interface.Method" string of the request as its method parameter, and no
\* handler runs.
C10_MethodNotFoundFullName ==
    OwnUnknownMethod =>
        /\ ~last.invoked
        /\ last.result = "Ok"
        /\ last.attempts =
              <<ReplyError("org.varlink.service.MethodNotFound",
                           JO([method |-> JS(last.request.method)]))>>

C10_Witness ==
    /\ OwnUnknownMethod
    /\ last.request.method = "org.example.ping.Nope"
    /\ Len(last.frames) = 1

MethodParameter(r) == r.parameters.v.method.v

Undeserializable ==
    /\ last.op = "ProxyCall"
    /\ last.request.parameters # NoValue
    /\ \/ /\ last.request.method = Dotted(PingIface, "Ping")
          /\ ~CanDeserialize(Ping_Args, last.request.parameters)
       \/ /\ last.request.method = Dotted(PingIface, "Find")
          /\ ~CanDeserialize(Find_Args, last.request.parameters)

\* C12: a request to a method with input fields whose parameters do not
\* deserialize into the Args_ struct is replied InvalidParameter, and the
\* handler is not invoked.
C12_InvalidParameterOnBadArgs ==
    Undeserializable =>
        /\ ~last.invoked
        /\ Len(last.attempts) = 1
        /\ last.attempts[1].error = "org.varlink.service.InvalidParameter"

-----------------------------------------------------------------------------
(* Properties of the generator (checked under SpecGen) *)

is_lowercase(ch) == \E i \in DOMAIN Lowers : Lowers[i] = ch

Underscores(n) == [i \in 1 .. n |-> "_"]

\* every character lowercased, with '_' put before each uppercase character
\* that follows a lowercase one
RECURSIVE Pieces(_, _)
Pieces(r, i) ==
    IF i > Len(r) THEN <<>>
    ELSE (IF i > 1 /\ is_uppercase(r[i]) /\ is_lowercase(r[i - 1])
          THEN <<"_">> ELSE <<>>)
         \o <<to_lowercase(r[i])>> \o Pieces(r, i + 1)

SnakeInput == gen.input
Leading == trim_left_count(SnakeInput)
Rest == SubSeq(SnakeInput, Leading + 1, Len(SnakeInput))

\* C20: to_snake_case keeps the leading underscores, splits the rest on '_',
\* splits a word before an uppercase character exactly when it follows a
\* lowercase character, lowercases the pieces and joins them with '_'.
C20_SnakeCaseAsStated ==
    gen.op = "to_snake_case" =>
        gen.output = Underscores(Leading) \o Pieces(Rest, 1)

\* the target of a type expression by the table of the type mapping; an
\* inline struct or enum stands for the fresh name it is given
RECURSIVE TableText(_, _)
TableText(v, fresh) ==
    CASE v = Plain(VBool) -> "bool"
      [] v = Plain(VInt) -> "i64"
      [] v = Plain(VFloat) -> "f64"
      [] v = Plain(VString) -> "String"
      [] v = Plain(VObject) -> "Value"
      [] v.kind = "Plain" /\ v.vtype.kind = "Typename" -> v.vtype.name
      [] v.kind = "Plain" /\ v.vtype.kind \in {"Struct", "Enum"} -> fresh
      [] v.kind = "Array" -> "Vec<" \o TableText(v.elem, fresh) \o ">"
      [] v.kind = "Option" -> "Option<" \o TableText(v.elem, fresh) \o ">"
      [] v.kind = "Dict" ->
            IF v.elem = Plain(VStruct(<<>>)) THEN "varlink::StringHashSet"
            ELSE "varlink::StringHashMap<" \o TableText(v.elem, fresh) \o ">"

\* does a dictionary of the empty struct occur in v
RECURSIVE HasStringSet(_)
HasStringSet(v) ==
    /\ v.kind # "Plain"
    /\ \/ v.kind = "Dict" /\ v.elem = Plain(VStruct(<<>>))
       \/ HasStringSet(v.elem)

\* C15: to_rust maps bool, int, float, string, object and a typedef name to
\* bool, i64, f64, String, Value and the name, []T to Vec<..>, ?T to
\* Option<..> and [string]T, T not the empty inline struct, to
\* varlink::StringHashMap<..>, the wrappers composing at any nesting.
C15_TypeMapping ==
    gen.op = "to_rust" /\ ~HasStringSet(gen.input) =>
        gen.output.text = TableText(gen.input, "P_f")

C15_Witness ==
    /\ gen.op = "to_rust"
    /\ gen.input = Option(Array(Plain(VInt)))
    /\ gen.output.text = "Option<Vec<i64>>"

\* C16: [string]T maps to varlink::StringHashSet, with nothing queued, when
\* T is the inline struct without fields; for every other T, a struct with
\* fields or an optional or array of the empty struct included, it maps to
\* varlink::StringHashMap<..> of the mapped T.
C16_StringSetOnlyOfEmptyStruct ==
    gen.op = "to_rust" /\ gen.input.kind = "Dict" =>
        IF gen.input.elem = Plain(VStruct(<<>>))
        THEN /\ gen.output.text = "varlink::StringHashSet"
             /\ gen.output.structvec = <<>>
             /\ gen.output.enumvec = <<>>
        ELSE gen.output.text =
                "varlink::StringHashMap<"
                    \o TableText(gen.input.elem, "P_f") \o ">"

C16_Witness ==
    /\ gen.op = "to_rust"
    /\ gen.input = Dict(Plain(VStruct(<<>>)))
    /\ gen.output = Mapped("varlink::StringHashSet", <<>>, <<>>)

\* the member written for a field or variant named f: f itself, or f_ after
\* a rename to f when f is reserved
Hygienic(f) ==
    IF f \in Keywords
    THEN [annotation |-> " #[serde(rename = \"" \o f \o "\")]",
          name |-> f \o "_"]
    ELSE [annotation |-> "", name |-> f]

\* the struct of the given name for the fields elts, inline types of its
\* fields named by prefix and field; the enum for the variants elts
StructFor(name, elts, prefix) ==
    Definition("struct", name,
               [i \in DOMAIN elts |->
                   Member(elts[i].vtype.kind = "Option",
                          Hygienic(elts[i].name).annotation,
                          Hygienic(elts[i].name).name,
                          TableText(elts[i].vtype, prefix \o elts[i].name))])
EnumFor(name, elts) ==
    Definition("enum", name,
               [i \in DOMAIN elts |->
                   Member(FALSE, Hygienic(elts[i]).annotation,
                          Hygienic(elts[i]).name, "")])

\* the definitions for the inline structs and enums of the type v, the
\* outermost of them named fresh
RECURSIVE Inline(_, _)
Inline(v, fresh) ==
    CASE v.kind = "Plain" /\ v.vtype.kind = "Enum" ->
            {EnumFor(fresh, v.vtype.elts)}
      [] v.kind = "Plain" /\ v.vtype.kind = "Struct" ->
            {StructFor(fresh, v.vtype.elts, fresh \o "_")} \cup
            UNION {Inline(v.vtype.elts[i].vtype,
                          fresh \o "_" \o v.vtype.elts[i].name) :
                      i \in DOMAIN v.vtype.elts}
      [] v.kind = "Plain" /\ v.vtype.kind \notin {"Enum", "Struct"} -> {}
      [] v.kind = "Dict" /\ v.elem = Plain(VStruct(<<>>)) -> {}
      [] OTHER -> Inline(v.elem, fresh)

InlineOf(elts, prefix) ==
    UNION {Inline(elts[i].vtype, prefix \o elts[i].name) : i \in DOMAIN elts}

\* the definitions due for the inline types of an interface; sep stands
\* between the name of a method's or error's struct and the field
InlineOfInterface(self, sep) ==
    UNION ({InlineOf(self.typedefs[i].elt.elts, self.typedefs[i].name \o "_") :
              i \in {j \in DOMAIN self.typedefs :
                        self.typedefs[j].elt.kind = "Struct"}}
      \cup {InlineOf(self.methods[i].output.elts,
                     self.methods[i].name \o "Reply_" \o sep) :
              i \in DOMAIN self.methods}
      \cup {InlineOf(self.methods[i].input.elts,
                     self.methods[i].name \o "Args_" \o sep) :
              i \in DOMAIN self.methods}
      \cup {InlineOf(self.errors[i].parm.elts,
                     Str(self.errors[i].name) \o "Args_" \o sep) :
              i \in DOMAIN self.errors})

\* the definitions due for the typedefs, methods and errors themselves
NamedOfInterface(self, sep) ==
    {IF self.typedefs[i].elt.kind = "Struct"
     THEN StructFor(self.typedefs[i].name, self.typedefs[i].elt.elts,
                    self.typedefs[i].name \o "_")
     ELSE EnumFor(self.typedefs[i].name, self.typedefs[i].elt.elts) :
        i \in DOMAIN self.typedefs}
    \cup {StructFor(self.methods[i].name \o "Reply_",
                    self.methods[i].output.elts,
                    self.methods[i].name \o "Reply_" \o sep) :
            i \in DOMAIN self.methods}
    \cup {StructFor(self.methods[i].name \o "Args_",
                    self.methods[i].input.elts,
                    self.methods[i].name \o "Args_" \o sep) :
            i \in DOMAIN self.methods}
    \cup {StructFor(Str(self.errors[i].name) \o "Args_",
                    self.errors[i].parm.elts,
                    Str(self.errors[i].name) \o "Args_" \o sep) :
            i \in DOMAIN self.errors}

Generated == gen.op = "generate"

\* the structs and enums written
Written == {gen.output.w[i] : i \in {j \in DOMAIN gen.output.w :
                                        gen.output.w[j].kind # "fn"}}

\* a definition as its kind, its name and the types of its members
Typed(d) == <<d.kind, d.name, [i \in DOMAIN d.members |-> d.members[i].type]>>

\* a definition as its kind, its name and its members' renames and names
Named(d) ==
    <<d.kind, d.name,
      [i \in DOMAIN d.members |->
          <<d.members[i].annotation, d.members[i].name>>]>>

NamedCount ==
    Len(gen.input.typedefs) + 2 * Len(gen.input.methods)
        + Len(gen.input.errors)

\* what the loop wrote
Queued == SubSeq(gen.output.looped, NamedCount + 1, Len(gen.output.looped))

C19_ReservedNamesRenamed ==
    Generated =>
        {Named(d) : d \in Written} =
            {Named(d) : d \in NamedOfInterface(gen.input, "")
                              \cup InlineOfInterface(gen.input, "")}

C19_Witness ==
    /\ Generated
    /\ \E d \in Written :
          /\ d.name = "T_f"
          /\ d.members =
                <<Member(FALSE, " #[serde(rename = \"type\")]", "type_",
                         "bool")>>
    /\ \E d \in Written :
          /\ d.name = "Kind"
          /\ d.members[2].name = "type_"
          /\ d.members[1].annotation = ""

\* the name of the helper for each of the errors
HelperName(ename) ==
    CASE ename = "ClientIdError" -> "reply_client_id_error"
      [] ename = "CertificationError" -> "reply_certification_error"
      [] ename = "TypeError" -> "reply_type_error"

HelperCalled == gen.op = "reply_error"

\* C13: for error E of interface I the generator writes reply_<snake_case
\* of E> taking the fields of E in their order; a call of it hands exactly
\* one reply to reply_struct, with error "I.E" and as parameters the EArgs_
\* made of the arguments under the names of the fields, or no parameters
\* when E has no field (ClientIdError); the reply is written unless the
\* request is oneway.
C13_ErrorHelperReplies ==
    HelperCalled =>
        LET elts == gen.input.error.parm.elts
            ename == Str(gen.input.error.name)
            args == gen.input.args
            fn == gen.output.fn
            attempts == gen.output.call.attempts
        IN  /\ fn.name = HelperName(ename)
            /\ Len(fn.inparms) = Len(elts)
            /\ \A i \in DOMAIN elts :
                  fn.inparms[i].name = Hygienic(elts[i].name).name
            /\ Len(attempts) = 1
            /\ attempts[1].error = Iface \o "." \o ename
            /\ IF elts = <<>>
               THEN attempts[1].parameters = NoValue
               ELSE /\ attempts[1].parameters.ty = "object"
                    /\ \A i \in DOMAIN elts :
                          IF args[i] = NoValue
                          THEN elts[i].name \notin
                                  DOMAIN attempts[1].parameters.v
                          ELSE /\ elts[i].name \in
                                     DOMAIN attempts[1].parameters.v
                               /\ attempts[1].parameters.v[elts[i].name]
                                     = args[i]
            /\ gen.output.call.frames =
                  IF is_oneway(gen.input.call) THEN <<>> ELSE attempts
            /\ ename = "ClientIdError" =>
                  gen.output.call = reply_client_id_error(gen.input.call)
            /\ ename = "CertificationError" =>
                  gen.output.call =
                     reply_certification_error(gen.input.call, args[1],
                                               args[2])

C13_Witness ==
    /\ HelperCalled
    /\ gen.output.fn.name = "reply_client_id_error"
    /\ gen.output.fn.inparms = <<>>
    /\ Len(gen.output.call.frames) = 1
    /\ gen.output.call.frames[1].error =
          "org.varlink.certification.ClientIdError"
    /\ gen.output.call.frames[1].parameters = NoValue

Converted == gen.op = "from"

\* the errors of the interface with the name of the reply converted
Declared ==
    {t \in ErrorDecls : gen.input.error = Iface \o "." \o Str(t.name)}

\* the parameters of the reply converted deserialize into the Args_ of t
Deserializable(t) ==
    /\ gen.input.parameters # NoValue
    /\ CanDeserialize(ErrorArgs_(t.parm.elts), gen.input.parameters)

\* C14 as stated: a reply whose error is "I.E" for an error E of the
\* interface becomes the variant E carrying the parameters deserialized into
\* EArgs_; a reply with any other error name becomes UnknownError_ carrying
\* the reply unchanged.
C14_ErrorFromReply ==
    Converted =>
        IF Declared # {}
        THEN \A t \in Declared :
                /\ gen.output.variant = Str(t.name)
                /\ gen.input.parameters # NoValue =>
                      /\ Deserializable(t)
                      /\ gen.output.carried =
                            FromValue(ErrorArgs_(t.parm.elts),
                                      gen.input.parameters)
        ELSE gen.output = Error("UnknownError_", gen.input)

\* C14, amended: a reply with one of the errors of the core itself becomes
\* VarlinkError; otherwise a reply whose error is "I.E" becomes the variant E,
\* carrying the parameters deserialized into EArgs_ when there are
\* parameters and they deserialize, and nothing when not; a reply with any
\* other error name becomes UnknownError_ carrying the reply unchanged.
C14_ErrorFromReplyCoreFirst ==
    Converted =>
        IF gen.input.error \in CoreErrors
        THEN gen.output.variant = "VarlinkError"
        ELSE IF Declared # {}
        THEN \A t \in Declared :
                /\ gen.output.variant = Str(t.name)
                /\ gen.output.carried =
                      IF Deserializable(t)
                      THEN FromValue(ErrorArgs_(t.parm.elts),
                                     gen.input.parameters)
                      ELSE NoValue
        ELSE gen.output = Error("UnknownError_", gen.input)

C14_Witness ==
    /\ Converted
    /\ gen.input =
          ReplyError(M("CertificationError"),
                     JO([wants |-> JS("x"), got |-> EmptyObject]))
    /\ gen.output =
          Error("CertificationError",
                JO([wants |-> JS("x"), got |-> EmptyObject]))

\* the struct of the given name for the fields elts: a field of type ?T is
\* an Option of the mapped T written after skip_serializing_if, any other
\* field is the mapped type, which is no Option, without it
OptionalFor(name, elts, prefix) ==
    <<name,
      [i \in DOMAIN elts |->
          IF elts[i].vtype.kind = "Option"
          THEN <<TRUE, "Option<" \o TableText(elts[i].vtype.elem,
                                             prefix \o elts[i].name) \o ">">>
          ELSE <<FALSE, TableText(elts[i].vtype, prefix \o elts[i].name)>>]>>

\* the same for the inline structs of the type v
RECURSIVE OptionalInline(_, _)
OptionalInline(v, fresh) ==
    CASE v.kind = "Plain" /\ v.vtype.kind = "Struct" ->
            {OptionalFor(fresh, v.vtype.elts, fresh \o "_")} \cup
            UNION {OptionalInline(v.vtype.elts[i].vtype,
                                  fresh \o "_" \o v.vtype.elts[i].name) :
                      i \in DOMAIN v.vtype.elts}
      [] v.kind = "Plain" /\ v.vtype.kind # "Struct" -> {}
      [] v.kind = "Dict" /\ v.elem = Plain(VStruct(<<>>)) -> {}
      [] OTHER -> OptionalInline(v.elem, fresh)

\* a struct of the interface by its name and the infix before its fields
OptionalOf(name, infix, elts) ==
    {OptionalFor(name, elts, name \o infix)} \cup
    UNION {OptionalInline(elts[i].vtype, name \o infix \o elts[i].name) :
              i \in DOMAIN elts}

OptionalOfInterface(self) ==
    UNION ({OptionalOf(self.typedefs[i].name, "_", self.typedefs[i].elt.elts) :
              i \in {j \in DOMAIN self.typedefs :
                        self.typedefs[j].elt.kind = "Struct"}}
      \cup {OptionalOf(self.methods[i].name \o "Reply_", "",
                       self.methods[i].output.elts) :
              i \in DOMAIN self.methods}
      \cup {OptionalOf(self.methods[i].name \o "Args_", "",
                       self.methods[i].input.elts) :
              i \in DOMAIN self.methods}
      \cup {OptionalOf(Str(self.errors[i].name) \o "Args_", "",
                       self.errors[i].parm.elts) :
              i \in DOMAIN self.errors})

\* C22: a field is written as Option<T> exactly when its type is ?T, and
\* exactly those fields are written after skip_serializing_if =
\* "Option::is_none"; every other field has neither.
C22_OptionOnlyForOptional ==
    Generated =>
        {<<d.name, [i \in DOMAIN d.members |->
                       <<d.members[i].skip, d.members[i].type>>]>> :
            d \in {e \in Written : e.kind = "struct"}}
        = OptionalOfInterface(gen.input)

C22_Witness ==
    /\ Generated
    /\ \E d \in Written :
          /\ d.name = "T_f"
          /\ Len(d.members) = 1
          /\ d.members[1].skip
          /\ d.members[1].type = "Option<String>"
    /\ \E d \in Written :
          /\ d.name = "MArgs_"
          /\ Len(d.members) = 2
          /\ d.members[1].skip
          /\ d.members[1].type = "Option<MArgs_type>"
          /\ ~d.members[2].skip

-----------------------------------------------------------------------------
(* Properties of VarlinkStream (checked under SpecClient) *)

Connected == conn.op = "connect"
Dropped == conn.op = "drop"
ExecAddress == starts_with(conn.input, exec)

\* the part of an address body before its first ';'
BeforeSemicolon(body) ==
    LET k == CHOOSE k \in 0 .. Len(body) :
                /\ \A i \in 1 .. k : body[i] # ";"
                /\ k = Len(body) \/ body[k + 1] = ";"
    IN  SubSeq(body, 1, k)

\* C23: connect dials TCP HOST:PORT for tcp:HOST:PORT, the Unix socket PATH
\* for unix:PATH with everything from the first ';' on ignored, the
\* abstract socket NAME for unix:@NAME, and fails with 'unknown varlink
\* address' for every other scheme; the address returned for an address
\* that is not exec: is the one given.
C23_ConnectByScheme ==
    Connected /\ ~ExecAddress =>
        IF starts_with(conn.input, tcp)
        THEN IF conn.result = "Ok"
             THEN /\ conn.stream = TCP(Dial("tcp", from(conn.input, 4)))
                  /\ conn.address = conn.input
             ELSE conn.error = "io"
        ELSE IF starts_with(conn.input, unix)
        THEN LET path == BeforeSemicolon(from(conn.input, 5))
             IN  IF conn.result = "Ok"
                 THEN /\ conn.stream.kind = "UNIX"
                      /\ conn.stream.dial =
                            IF path # <<>> /\ path[1] = "@"
                            THEN Dial("abstract", Tail(path))
                            ELSE Dial("unix", path)
                      /\ conn.address = conn.input
                 ELSE conn.error = "io"
        ELSE /\ conn.result = "Err"
             /\ conn.error = "unknown varlink address"

C23_Witness ==
    /\ Connected
    /\ conn.input = unix \o <<"@", "n", ";", "m">>
    /\ conn.result = "Ok"
    /\ conn.stream.dial = Dial("abstract", <<"n">>)
    /\ conn.address = conn.input

\* C24: for an exec: address connect starts the executable as a child that
\* has the listening socket at descriptor 3 and LISTEN_FDS=1,
\* LISTEN_FDNAMES=varlink and LISTEN_PID its own pid, returns the unix:
\* address of that socket, dials it and gives a UNIX stream holding the
\* child, and the temporary directory when one was made; a TCP stream holds
\* no child.
C24_ExecStartsChild ==
    /\ Connected /\ ExecAddress /\ conn.result = "Ok" =>
          /\ conn.child.state = "running"
          /\ conn.child.executable = from(conn.input, 5)
          /\ conn.child.fd3 = "listener"
          /\ conn.child.env = [LISTEN_FDS |-> "1", LISTEN_FDNAMES |-> "varlink",
                               LISTEN_PID |-> "pid of the child"]
          /\ conn.address =
                unix \o (IF conn.listening.net = "abstract"
                         THEN <<"@">> ELSE <<>>) \o conn.listening.to
          /\ conn.stream.kind = "UNIX"
          /\ conn.stream.dial = conn.listening
          /\ conn.stream.child
          /\ conn.stream.tmpdir <=> conn.dir = "exists"
    /\ conn.stream.kind = "TCP" =>
          ~conn.stream.child /\ conn.child = NoChild

C24_Witness ==
    /\ Connected
    /\ ExecAddress
    /\ conn.result = "Ok"
    /\ conn.stream = UNIX(Dial("unix", SocketFile), TRUE, TRUE)
    /\ conn.child.fd3 = "listener"
    /\ conn.dir = "exists"

\* the place of an entry in the log, 0 when it is not there
At(entry) ==
    IF \E i \in DOMAIN conn.log : conn.log[i] = entry
    THEN CHOOSE i \in DOMAIN conn.log : conn.log[i] = entry
    ELSE 0

\* C25: after the drop of a VarlinkStream its socket has been shut down and
\* is closed, the child it held has been killed and waited for and the
\* temporary directory is removed, so that none of them remains; the
\* shutdown comes before the kill.
C25_DropReleasesAll ==
    Dropped =>
        /\ conn.socket = "closed"
        /\ 0 < At("shutdown") /\ At("shutdown") < At("close")
        /\ conn.dir # "exists"
        /\ conn.child # NoChild =>
              /\ conn.child.state = "reaped"
              /\ At("shutdown") < At("kill")
              /\ At("kill") < At("wait")

C25_Witness ==
    /\ Dropped
    /\ conn.child.state = "reaped"
    /\ conn.dir = "removed"
    /\ conn.socket = "closed"
    /\ conn.log = <<"shutdown", "kill", "wait", "remove_dir_all", "close">>

-----------------------------------------------------------------------------
(* Properties of run_server (checked under SpecServer and SpecServerLive) *)

Returned == srv.pc = "returned"

\* C26: run_server returns Ok exactly when listen returned Ok or failed
\* with kind Timeout, and returns every other failure of listen as it is.
C26_RunServerResult ==
    Returned =>
        /\ srv.result.ok <=> (srv.listened.ok \/ srv.listened.kind = "Timeout")
        /\ ~srv.listened.ok /\ srv.listened.kind # "Timeout" =>
              srv.result = srv.listened

C26_Witness ==
    /\ Returned
    /\ srv.listened = Err("Timeout")
    /\ srv.result = Ok

\* no connection is active and none will arrive any more
Quiet ==
    /\ srv.pc = "listening"
    /\ srv.active = 0
    /\ srv.arrivals = 0
    /\ srv.test \notin {"sleep", "connect"}

\* C27: a server with timeout_seconds > 0 returns without error once its
\* last client has disconnected and no connection arrives any more; the
\* join of the self-test's server thread succeeds after run_client has
\* completed; and the server never returns while a connection is active.
C27_ServerTerminates ==
    /\ [](Returned => srv.active = 0)
    /\ (Quiet /\ srv.timeout > 0) ~> (Returned /\ srv.result.ok)
    /\ (srv.test = "join") ~> (srv.test = "joined")

C27_Witness ==
    /\ srv.mode = "selftest"
    /\ srv.test = "joined"
    /\ srv.calls = 0
    /\ srv.listened = Err("Timeout")
    /\ srv.result = Ok

-----------------------------------------------------------------------------
(* Properties of one connection (checked under SpecWire) *)

\* the replies given to call n, in the order they were given
GotBy(n) == SelectSeq(wire.got, LAMBDA g : g.call = n)

\* the number of a call of run_client: Start is 1, Test10 11, End 13
CallNumber(step) == CHOOSE k \in DOMAIN RunSteps : RunSteps[k] = step

\* C28: the Ping calls of run_app on its connection are strictly
\* sequential: a call is sent only when every call before it has got its
\* reply, and each call gets the reply to itself, with pong the ping it
\* sent, never the reply to an earlier call.
C28_PingCallsSequential ==
    wire.prog = "ping" =>
        /\ wire.sent - Len(wire.got) \in {0, 1}
        /\ \A i \in DOMAIN wire.got :
              /\ wire.got[i].call = i
              /\ wire.got[i].of = i
              /\ wire.got[i].frame =
                    ReplyParameters(JO([pong |-> PingRequest.parameters.v.ping]))

C28_Witness ==
    /\ wire.prog = "ping"
    /\ wire.pc = Len(run_app) + 1
    /\ Len(wire.got) = 3
    /\ wire.got[3].of = 3
    /\ wire.got[3].frame = ReplyParameters(JO([pong |-> JS("Test")]))

\* the strings of the ten replies of Test10
TenReplies == [i \in 1 .. 10 |-> JS(ReplyNumber(i))]

\* C29: run_client gets the replies of its 'more' call in the order they
\* were emitted and stops at the first without continues: the iterator of
\* Test10 yields "Reply number 1" to "Reply number 10" in this order and no
\* more, Test11 called with them passes, and the reply read by End after the
\* oneway Test11 is the reply to End.
C29_MoreRepliesInOrder ==
    wire.prog = "cert" =>
        /\ cpc # "Failed"
        /\ \A i \in DOMAIN wire.got : wire.got[i].call = wire.got[i].of
        /\ carr = SubSeq(TenReplies, 1, Len(carr))
        /\ carr = [i \in DOMAIN GotBy(CallNumber("Test10")) |->
                      GotBy(CallNumber("Test10"))[i].frame.parameters.v.string]
        /\ Len(carr) = Len(TenReplies) <=> cpc \in {"Test11", "End", "Done"}
        /\ \A i \in DOMAIN carr :
              GotBy(CallNumber("Test10"))[i].frame.continues
                 <=> i < Len(TenReplies)
        /\ last.op = "Test11" =>
              /\ last.id_ok = "pass"
              /\ last.req_ok = "pass"
              /\ last.frames = <<>>
        /\ GotBy(CallNumber("Test11")) = <<>>
        /\ cpc = "Done" =>
              /\ last.op = "End"
              /\ GotBy(CallNumber("End")) =
                    <<[call |-> CallNumber("End"), of |-> CallNumber("End"),
                       frame |-> ReplyParameters(JO([all_ok |-> JB(TRUE)]))]>>

C29_Witness ==
    /\ wire.prog = "cert"
    /\ cpc = "Done"
    /\ carr = TenReplies
    /\ Len(GotBy(CallNumber("Test10"))) = 10
    /\ wire.got[Len(wire.got)].of = CallNumber("End")

-----------------------------------------------------------------------------
(* Properties of the lock on the client-id table (checked under SpecPar) *)

\* two connections have called the same TestN with the same id at the same
\* time, the table expected TestN of the id at both calls, and both calls
\* are done
SameTest(c, d) ==
    /\ c # d
    /\ d \in par.thr[c].peers /\ c \in par.thr[d].peers
    /\ par.thr[c].pc = "done" /\ par.thr[d].pc = "done"
    /\ par.thr[c].op = "Test" /\ par.thr[d].op = "Test"
    /\ par.thr[c].client_id = par.thr[d].client_id
    /\ par.thr[c].test = par.thr[d].test
    /\ par.thr[c].test # "End"
    /\ par.thr[c].seen /\ par.thr[d].seen

\* one of the two passed the check and the other was replied ClientIdError
OnePassed(c, d) ==
    \/ par.thr[c].ok /\ ~par.thr[d].ok /\ par.thr[d].reply = ClientIdError
    \/ par.thr[d].ok /\ ~par.thr[c].ok /\ par.thr[c].reply = ClientIdError

\* at most one guard of the lock is held, and while none is held every id
\* of the map has its entry in the queue
Guarded ==
    /\ Cardinality(par.holders) <= 1
    /\ par.holders = {} =>
          \A id \in DOMAIN contexts :
             \E i \in DOMAIN lifetimes : lifetimes[i][2] = id

\* C30 as stated: the table is changed under one guard at a time, and of
\* two connections that call the same TestN with the same client id whose
\* expected test is TestN exactly one passes and the other is replied
\* ClientIdError.
C30_ExactlyOnePasses ==
    /\ Guarded
    /\ \A c, d \in Conns : SameTest(c, d) => OnePassed(c, d)

\* C30, amended: the table is changed under one guard at a time, and of two
\* connections that call the same TestN with the same client id whose
\* expected test is TestN, exactly one passes and the other is replied
\* ClientIdError provided the id has not expired when the first of the two
\* checks runs; when it has, both are replied ClientIdError.
C30_ExactlyOnePassesInTime ==
    /\ Guarded
    /\ \A c, d \in Conns :
          SameTest(c, d) =>
             IF par.thr[c].fresh \/ par.thr[d].fresh
             THEN OnePassed(c, d)
             ELSE /\ par.thr[c].reply = ClientIdError
                  /\ par.thr[d].reply = ClientIdError

C30_Witness ==
    /\ SameTest("a", "b")
    /\ par.thr["a"].test = "Test02"
    /\ par.thr["b"].ok /\ ~par.thr["a"].ok
    /\ par.thr["a"].reply = ClientIdError
    /\ contexts[par.thr["a"].client_id] = "Test03"

-----------------------------------------------------------------------------
(* Further properties of the client-id table (checked under Spec) *)

NoIdTwice ==
    \A i, j \in DOMAIN lifetimes : lifetimes[i][2] = lifetimes[j][2] => i = j

\* the ids of the entries a step took from the front of the queue
Evicted(k) == {lifetimes[i][2] : i \in 1 .. k}

\* C31: after any sequence of Start, TestN and End and of evictions the ids
\* of the map are the ids of the queue and no id is twice in the queue, so
\* that the id of every queue entry that has not expired is in the map.
C31_MapAndQueueAgree ==
    /\ DOMAIN contexts = QueueIds
    /\ NoIdTwice
    /\ \A i \in DOMAIN lifetimes :
          ~Expired(lifetimes[i][1]) => lifetimes[i][2] \in DOMAIN contexts

\* C35: check_lifetime_timeout takes from the front of the queue the leading
\* entries older than max_lifetime whole seconds and no other, and from the
\* map their ids; the instants of the queue never decrease, so no entry left
\* is older than max_lifetime and no entry of that age or less is taken.
C35_EvictsExpiredPrefix ==
    /\ [](\A i, j \in DOMAIN lifetimes : i <= j => lifetimes[i][1] <= lifetimes[j][1])
    /\ [][last'.op = "CheckClientId" =>
            LET k == last'.evicted
            IN  /\ k \in 0 .. Len(lifetimes)
                /\ lifetimes' = SubSeq(lifetimes, k + 1, Len(lifetimes))
                /\ \A i \in 1 .. k : Expired(lifetimes[i][1])
                /\ \A i \in k + 1 .. Len(lifetimes) : ~Expired(lifetimes[i][1])
                /\ DOMAIN contexts' = DOMAIN contexts \ Evicted(k)]_vars

\* one entry was evicted and the check stopped at a younger one behind it
C35_Witness ==
    /\ last.op = "CheckClientId"
    /\ last.evicted = 1
    /\ Len(lifetimes) = 1
    /\ ~Expired(lifetimes[1][1])
    /\ lifetimes[1][2] \in DOMAIN contexts

\* C36: a client-id check that fails leaves the expected test of every id
\* that is not evicted as it was; one that passes changes the expected test
\* of the id it was called with and of no other.
C36_CheckFrame ==
    [][last'.op = "CheckClientId" =>
          /\ DOMAIN contexts' \subseteq DOMAIN contexts
          /\ \A id \in DOMAIN contexts' :
                \/ contexts'[id] = contexts[id]
                \/ /\ last'.id_ok = "pass"
                   /\ id = last'.client_id
                   /\ contexts'[id] = NextTest(contexts[id])]_vars

\* a check failed on an id whose expected test was another, beside a second id
C36_Witness ==
    /\ last.op = "CheckClientId"
    /\ last.id_ok = "fail"
    /\ Cardinality(DOMAIN contexts) = 2
    /\ \E id \in DOMAIN contexts : contexts[id] = "Test03"

-----------------------------------------------------------------------------
(* Further properties of one request to the certification service (checked  *)
(* under SpecCalls)                                                         *)

\* the client-id check of a call of test with the id of the last request
Retry(test) ==
    check_client_id(Table(lifetimes, contexts), now, last.client_id,
                    test, NextTest(test)).ok

IdFirst ==
    last.id_ok = "fail" =>
        /\ OnlyReply(ReplyError(ClientIdError, NoValue))
        /\ last.req_ok = "na"
        /\ ExpectedOf(last.client_id) = last.expected

AdvancedBeforeRequestCheck ==
    last.id_ok = "pass" /\ last.req_ok = "fail" =>
        /\ Len(last.attempts) = 1
        /\ last.attempts[1].error = CertificationError
        /\ last.expected = last.op
        /\ contexts[last.client_id] = Following(last.op)

\* C32 as stated: a TestN or End handler checks the client id, advances the
\* expected test and then checks the request: a call with an invalid id is
\* replied ClientIdError whatever else is wrong with it, a call that fails
\* the request check is replied CertificationError with the expected test
\* advanced, and its test cannot be called again with that id.
C32_ChecksInOrder ==
    IsTestCall =>
        /\ IdFirst
        /\ AdvancedBeforeRequestCheck
        /\ last.id_ok = "pass" /\ last.req_ok = "fail" => ~Retry(last.op)

\* C32, amended: the same, where only a TestN cannot be called again with
\* that id; End is advanced to End and passes the client-id check again.
C32_ChecksInOrderEndAgain ==
    IsTestCall =>
        /\ IdFirst
        /\ AdvancedBeforeRequestCheck
        /\ last.id_ok = "pass" /\ last.req_ok = "fail" =>
              (Retry(last.op) <=> last.op = "End")

C32_Witness ==
    /\ IsTestCall
    /\ last.op = "Test02"
    /\ last.id_ok = "pass"
    /\ last.req_ok = "fail"
    /\ contexts[last.client_id] = "Test03"
    /\ ~Retry("Test02")

\* the request a CertificationError reports as wanted
Wanted == last.attempts[1].parameters.v.wants.v

WantedFlags == {f \in AllFlags \cap DOMAIN Wanted : Wanted[f].v = "true"}

\* C40: the request a CertificationError reports as wanted names the method
\* of the handler and is of the mode the failed check asks for: no flag set
\* for Start, Test01..Test09 and End, more for Test10, oneway for Test11.
C40_WantsWouldPass ==
    last.invoked /\ last.req_ok = "fail" =>
        /\ Len(last.attempts) = 1
        /\ last.attempts[1].error = CertificationError
        /\ Wanted.method = JS(M(last.op))
        /\ last.op \in NormalMethods => WantedFlags = {}
        /\ last.op = "Test10" => WantedFlags = {"more"}
        /\ last.op = "Test11" => WantedFlags = {"oneway"}

-----------------------------------------------------------------------------
(* The id after End (checked under Spec) *)

AtEnd(id) == id \in DOMAIN contexts /\ contexts[id] = "End"

\* the id is in the table once the entries older than max_lifetime are out
Alive(id) ==
    id \in DOMAIN check_lifetime_timeout(Table(lifetimes, contexts), now).contexts

Check(id, test) ==
    check_client_id(Table(lifetimes, contexts), now, id, test, NextTest(test))

-----------------------------------------------------------------------------
(* Test10 on a connection that closes (checked under SpecCalls); of such a  *)
(* request last.evicted is the number of frames the connection took.        *)

Closing == last.op = "Test10Closing"

\* the write the connection turned down, when there is one
FailedWrite == Len(last.frames) + 1

\* reply i of the stream of Test10
StreamReply(i) ==
    [error |-> "none", parameters |-> JO([string |-> JS(ReplyNumber(i))]),
     continues |-> i < 10]

\* C37: when the write of a reply of the Test10 stream fails the handler
\* returns that error with no further reply attempted: the failed write is
\* the last write attempted, what was written before it is the first replies
\* of the stream, and the handler returns Ok only when every write was done.
C37_ReturnsOnWriteFailure ==
    Closing /\ last.req_ok = "pass" =>
        /\ last.frames = [i \in 1 .. Len(last.frames) |-> StreamReply(i)]
        /\ Len(last.frames) = last.evicted
        /\ last.result = "Err"
        /\ Len(last.attempts) = FailedWrite
        /\ SubSeq(last.attempts, 1, Len(last.frames)) = last.frames
        /\ last.attempts[FailedWrite] = StreamReply(FailedWrite)

\* the write of reply 4 failed
C37_Witness ==
    /\ Closing
    /\ last.req_ok = "pass"
    /\ last.result = "Err"
    /\ Len(last.frames) = 3
    /\ Len(last.attempts) = 4

-----------------------------------------------------------------------------
(* Names of the generated types (checked under SpecGen) *)

\* the names of the structs and enums written
TypeNames(w) == {w[i].name : i \in {j \in DOMAIN w : w[j].kind # "fn"}}

\* no two of the structs and enums written have the same name
DistinctNames(w) ==
    \A i, j \in DOMAIN w :
       w[i].kind # "fn" /\ w[j].kind # "fn" /\ w[i].name = w[j].name => i = j

\* C34: the structs and enums the generator writes for an interface have
\* pairwise distinct names: typedefs, the Args_ and Reply_ structs of
\* methods, the Args_ structs of errors, and the queued inline structs and
\* enums, whose field names may contain '_'.
C34_DistinctTypeNames ==
    gen.op \in {"generate", "generate_fields"} => DistinctNames(gen.output.looped)

\* the names main.rs uses for generated items
UsedByServer ==
    {"Test01_Args", "Test06_Reply_struct", "Test07_Args_struct", "Call_Start"}

\* C39: for each method M the generator writes the structs M_Args_ and
\* M_Reply_, and the names the certification server uses for generated
\* items are among the names written for the certification interface.
C39_ServerNamesGenerated ==
    gen.op = "generate_certification" =>
        LET emitted == TypeNames(gen.output.w)
                          \cup {gen.output.traits[i] : i \in DOMAIN gen.output.traits}
        IN  /\ \A i \in DOMAIN gen.input.methods :
                  /\ gen.input.methods[i].name \o "_Args_" \in emitted
                  /\ gen.input.methods[i].name \o "_Reply_" \in emitted
            /\ UsedByServer \subseteq emitted

-----------------------------------------------------------------------------
(* The child of an exec: address (checked under SpecClientLive) *)

\* C33: a child that connect has spawned for exec: is killed and waited for
\* in the end on every path, the one included where the dial after the
\* spawn fails and connect returns an error.
C33_ChildReaped ==
    (conn.child.state = "running") ~> (conn.child.state = "reaped")

====
